---- MODULE Spec2Model ----
(***************************************************************************)
(* libdict: the height-balanced (AVL) tree of src/src/hb_tree.c and the    *)
(* skip list of src/src/skiplist.c behind the common dict interface.       *)
(*                                                                         *)
(* Addresses are abstract.  A live node is named by a positive integer,    *)
(* NULL is 0, the skip list's sentinel is HEAD, and a pointer to a block   *)
(* that has been released is DANGLING.  Pointer equality is all the code   *)
(* uses of an address, so after every operation the live nodes are renamed *)
(* 1..n in key order (HbRelocate, SkipRelocate); a fresh block is n+1.     *)
(***************************************************************************)
EXTENDS Integers, Sequences, FiniteSets, TLC

\* ------------------------------------------------------------- bounds
MaxHbKey == 5        \* keys put in the AVL tree are ordered as 1..MaxHbKey
MaxSkipKey == 3      \* keys put in the skip list are ordered as 1..MaxSkipKey
MaxItorHbKey == 3    \* keys put in the AVL tree under SpecItor
MaxItorSkipKey == 3  \* keys put in the skip list under SpecItor
MaxVal == 2          \* distinct payload objects the client passes
DeepKey == 8         \* keys of the AVL-only specification SpecDeep
MaxLinkArg == 3      \* largest max_link handed to skiplist_new
MaxSkipLink == 4     \* max_link of the skip-list-only specification SpecSkip

HbKeys == 1..MaxHbKey
SkipKeys == 1..MaxSkipKey
Vals == 1..MaxVal

\* ------------------------------------------------------------- addresses
NULL == 0
HEAD == -1
DANGLING == -2

Max(a, b) == IF a > b THEN a ELSE b
Min(a, b) == IF a < b THEN a ELSE b

\* A key object: ord is what the comparison function looks at, obj tells
\* apart two key objects that compare equal.
KeyObj(k, v) == [ord |-> k, obj |-> v]

\* The client's comparison function: a strict total order on ord.
cmp_func(a, b) == a.ord - b.ord

VARIABLES vtable, tree, list, itor, last, failed, ref

vars == <<vtable, tree, list, itor, last, failed, ref>>

\* ================================================================ hb_tree.c

hb_node_new(key, datum) ==
    [key |-> key, datum |-> datum, llink |-> NULL, rlink |-> NULL,
     parent |-> NULL, bal |-> 0]

\* hb_tree_new: the tree after construction (with a cleanup callback).
hb_tree_new ==
    [root |-> NULL, count |-> 0, del_func |-> TRUE, nd |-> <<>>]

\* The working copy of a tree during one call: fail records a failed ASSERT,
\* del the calls made to del_func, in order, path the branches taken.
HbEnter(t) == [root |-> t.root, count |-> t.count, del_func |-> t.del_func,
               nd |-> t.nd, fail |-> FALSE, del |-> <<>>, path |-> {}]

HbMark(T, tag) == [T EXCEPT !.path = @ \cup {tag}]

HbAbort(T) == [T EXCEPT !.fail = TRUE]

HbFree(nd, node) == [i \in (DOMAIN nd) \ {node} |-> nd[i]]

HbDel(T, node) ==
    IF T.del_func THEN [T EXCEPT !.del = Append(@, <<T.nd[node].key, T.nd[node].datum>>)]
    ELSE T

\* p->fld = val
HbSet(nd, p, fld, val) == [nd EXCEPT ![p][fld] = val]

\* if (p) p->fld = val
HbSetIf(nd, p, fld, val) == IF p # NULL THEN [nd EXCEPT ![p][fld] = val] ELSE nd

\* if (parent) { if (parent->llink == node) parent->llink = child; else parent->rlink = child; }
HbReplaceChild(nd, parent, node, child) ==
    IF parent = NULL THEN nd
    ELSE IF nd[parent].llink = node THEN [nd EXCEPT ![parent].llink = child]
    ELSE [nd EXCEPT ![parent].rlink = child]

\* rot_left_bal with node->bal -= 1 + rlink->bal, the MAX(rlink->bal, 0) dropped.
rot_left_bal_no_max(nd, node, rlink) ==
    [nd EXCEPT ![node].bal = @ - (1 + nd[rlink].bal),
               ![rlink].bal = @ - (1 - Min(nd[node].bal - (1 + nd[rlink].bal), 0))]

\* node->bal -= 1 + MAX(rlink->bal, 0); rlink->bal -= 1 - MIN(node->bal, 0);
rot_left_bal(nd, node, rlink) ==
    [nd EXCEPT ![node].bal = @ - (1 + Max(nd[rlink].bal, 0)),
               ![rlink].bal = @ - (1 - Min(nd[node].bal - (1 + Max(nd[rlink].bal, 0)), 0))]

\* rot_left_links without rlink->llink->parent = node: the subtree that
\* changes sides keeps its old parent.
rot_left_links_keeps_inner_parent(nd, node, rlink, rl, parent) ==
    HbSet(HbSet(HbReplaceChild(HbSet(HbSet(nd, node, "rlink", rl),
                                     rlink, "parent", parent),
                               parent, node, rlink),
                rlink, "llink", node),
          node, "parent", rlink)

\* The link assignments of rot_left, in the order of the code (innermost
\* first); rl is rlink->llink and parent is node->parent.
rot_left_links(nd, node, rlink, rl, parent) ==
    HbSet(HbSet(HbReplaceChild(HbSet(HbSetIf(HbSet(nd, node, "rlink", rl),
                                             rl, "parent", node),
                                     rlink, "parent", parent),
                               parent, node, rlink),
                rlink, "llink", node),
          node, "parent", rlink)

\* hc is the value returned: whether the subtree's height changed.
rot_left(T, node) ==
    IF node = NULL \/ T.nd[node].rlink = NULL THEN [T |-> HbAbort(T), hc |-> FALSE]
    ELSE
    LET rlink == T.nd[node].rlink
        parent == T.nd[node].parent
        links == rot_left_links(T.nd, node, rlink, T.nd[rlink].llink, parent)
    IN [T |-> HbMark([T EXCEPT !.nd = rot_left_bal(links, node, rlink),
                               !.root = IF parent # NULL THEN @ ELSE rlink],
                     "rot_left"),
        hc |-> T.nd[rlink].bal # 0]

\* node->bal += 1 - MIN(llink->bal, 0); llink->bal += 1 + MAX(node->bal, 0);
rot_right_bal(nd, node, llink) ==
    [nd EXCEPT ![node].bal = @ + (1 - Min(nd[llink].bal, 0)),
               ![llink].bal = @ + (1 + Max(nd[node].bal + (1 - Min(nd[llink].bal, 0)), 0))]

rot_right_links(nd, node, llink, lr, parent) ==
    HbSet(HbSet(HbReplaceChild(HbSet(HbSetIf(HbSet(nd, node, "llink", lr),
                                             lr, "parent", node),
                                     llink, "parent", parent),
                               parent, node, llink),
                llink, "rlink", node),
          node, "parent", llink)

rot_right(T, node) ==
    IF node = NULL \/ T.nd[node].llink = NULL THEN [T |-> HbAbort(T), hc |-> FALSE]
    ELSE
    LET llink == T.nd[node].llink
        parent == T.nd[node].parent
        links == rot_right_links(T.nd, node, llink, T.nd[llink].rlink, parent)
    IN [T |-> HbMark([T EXCEPT !.nd = rot_right_bal(links, node, llink),
                               !.root = IF parent # NULL THEN @ ELSE llink],
                     "rot_right"),
        hc |-> T.nd[llink].bal # 0]

\* hb_tree_search: the datum stored for key, NULL when there is none.
RECURSIVE hb_search_loop(_, _, _)
hb_search_loop(nd, node, key) ==
    IF node = NULL THEN NULL
    ELSE LET cmp == cmp_func(key, nd[node].key) IN
         IF cmp < 0 THEN hb_search_loop(nd, nd[node].llink, key)
         ELSE IF cmp > 0 THEN hb_search_loop(nd, nd[node].rlink, key)
         ELSE nd[node].datum

hb_tree_search(t, key) == hb_search_loop(t.nd, t.root, key)

\* The descent of hb_tree_insert and hb_tree_probe: it ends on the node with
\* an equal key, or on NULL with the parent to link under, the last
\* comparison, and q, the deepest node passed whose bal is not 0.
RECURSIVE hb_descend(_, _, _, _, _, _)
hb_descend(nd, key, node, parent, q, cmp) ==
    IF node = NULL THEN [node |-> NULL, parent |-> parent, q |-> q, cmp |-> cmp]
    ELSE LET c == cmp_func(key, nd[node].key) IN
         IF c = 0 THEN [node |-> node, parent |-> parent, q |-> q, cmp |-> 0]
         ELSE hb_descend(nd, key,
                         IF c < 0 THEN nd[node].llink ELSE nd[node].rlink,
                         node,
                         IF nd[node].bal # 0 THEN node ELSE q,
                         c)

\* hb_retrace with the sign of the new balance factors inverted.
RECURSIVE hb_retrace_inverted(_, _, _, _)
hb_retrace_inverted(nd, node, parent, q) ==
    IF parent = q THEN [nd |-> nd, node |-> node]
    ELSE hb_retrace_inverted([nd EXCEPT ![parent].bal = IF nd[parent].rlink = node THEN -1 ELSE 1],
                             parent, nd[parent].parent, q)

\* while (parent != q) { parent->bal = (parent->rlink == node) * 2 - 1; ... }
RECURSIVE hb_retrace(_, _, _, _)
hb_retrace(nd, node, parent, q) ==
    IF parent = q THEN [nd |-> nd, node |-> node]
    ELSE hb_retrace([nd EXCEPT ![parent].bal = IF nd[parent].rlink = node THEN 1 ELSE -1],
                    parent, nd[parent].parent, q)

\* if (q) { ... }: the balance step at q after the retrace.
hb_fix_q(T, q, node) ==
    IF q = NULL THEN T
    ELSE IF T.nd[q].llink = node
    THEN LET T1 == [T EXCEPT !.nd[q].bal = @ - 1] IN
         IF T1.nd[q].bal = -2
         THEN LET T2 == IF T1.nd[T1.nd[q].llink].bal > 0
                        THEN rot_left(T1, T1.nd[q].llink).T ELSE T1
              IN rot_right(T2, q).T
         ELSE T1
    ELSE LET T1 == [T EXCEPT !.nd[q].bal = @ + 1] IN
         IF T1.nd[q].bal = 2
         THEN LET T2 == IF T1.nd[T1.nd[q].rlink].bal < 0
                        THEN rot_right(T1, T1.nd[q].rlink).T ELSE T1
              IN rot_left(T2, q).T
         ELSE T1

\* The part of hb_tree_insert and hb_tree_probe that follows the descent when
\* the key is absent: allocate, link, retrace, rebalance, count.  ok is
\* whether MALLOC succeeds; ret is what the caller returns on success.
hb_link_new(T, key, datum, d, ok, ret) ==
    IF ~ok THEN [T |-> T, ret |-> -1, alloc |-> "failed"]
    ELSE
    LET node == Cardinality(DOMAIN T.nd) + 1
        fresh == [hb_node_new(key, datum) EXCEPT !.parent = d.parent]
        nd0 == [i \in (DOMAIN T.nd) \cup {node} |->
                   IF i = node THEN fresh ELSE T.nd[i]]
    IN IF d.parent = NULL
       THEN [T |-> [(IF T.count # 0 THEN HbAbort(T) ELSE T)
                       EXCEPT !.nd = nd0, !.root = node, !.count = 1],
             ret |-> ret, alloc |-> "done"]
       ELSE LET nd1 == IF d.cmp < 0
                       THEN [nd0 EXCEPT ![d.parent].llink = node]
                       ELSE [nd0 EXCEPT ![d.parent].rlink = node]
                r == hb_retrace(nd1, node, d.parent, d.q)
                T1 == hb_fix_q([T EXCEPT !.nd = r.nd], d.q, r.node)
            IN [T |-> [T1 EXCEPT !.count = @ + 1], ret |-> ret, alloc |-> "done"]

\* hb_tree_insert that overwrites the datum and keeps the old key.
hb_tree_insert_keeps_key(T, key, datum, overwrite, ok) ==
    LET d == hb_descend(T.nd, key, T.root, NULL, NULL, 0) IN
    IF d.node # NULL
    THEN IF ~overwrite THEN [T |-> T, ret |-> 1, alloc |-> "none"]
         ELSE [T |-> [HbDel(T, d.node) EXCEPT !.nd[d.node].datum = datum],
               ret |-> 0, alloc |-> "none"]
    ELSE hb_link_new(T, key, datum, d, ok, 0)

hb_tree_insert(T, key, datum, overwrite, ok) ==
    LET d == hb_descend(T.nd, key, T.root, NULL, NULL, 0) IN
    IF d.node # NULL
    THEN IF ~overwrite THEN [T |-> T, ret |-> 1, alloc |-> "none"]
         ELSE [T |-> [HbDel(T, d.node) EXCEPT !.nd[d.node].key = key,
                                              !.nd[d.node].datum = datum],
               ret |-> 0, alloc |-> "none"]
    ELSE hb_link_new(T, key, datum, d, ok, 0)

\* hb_tree_probe that leaves *datum alone when the key is found.
hb_tree_probe_no_out(T, key, datum, ok) ==
    LET d == hb_descend(T.nd, key, T.root, NULL, NULL, 0) IN
    IF d.node # NULL
    THEN [T |-> T, ret |-> 0, alloc |-> "none", out |-> datum]
    ELSE hb_link_new(T, key, datum, d, ok, 1) @@ [out |-> datum]

\* out is *datum after the call.
hb_tree_probe(T, key, datum, ok) ==
    LET d == hb_descend(T.nd, key, T.root, NULL, NULL, 0) IN
    IF d.node # NULL
    THEN [T |-> T, ret |-> 0, alloc |-> "none", out |-> T.nd[d.node].datum]
    ELSE hb_link_new(T, key, datum, d, ok, 1) @@ [out |-> datum]

\* The search loop of hb_tree_remove.
RECURSIVE hb_find(_, _, _, _)
hb_find(nd, key, node, parent) ==
    IF node = NULL THEN [node |-> NULL, parent |-> parent]
    ELSE LET cmp == cmp_func(key, nd[node].key) IN
         IF cmp = 0 THEN [node |-> node, parent |-> parent]
         ELSE hb_find(nd, key, IF cmp < 0 THEN nd[node].llink ELSE nd[node].rlink, node)

RECURSIVE node_min(_, _)
node_min(nd, node) == IF nd[node].llink # NULL THEN node_min(nd, nd[node].llink) ELSE node

RECURSIVE node_max(_, _)
node_max(nd, node) == IF nd[node].rlink # NULL THEN node_max(nd, nd[node].rlink) ELSE node

\* for (;;) { ... } of hb_tree_remove: the retrace from the splice point.
RECURSIVE hb_remove_loop(_, _, _)

\* node = parent; parent = parent->parent; if (!parent) break; left = parent->llink == node;
hb_higher(U, node) ==
    IF U.nd[node].parent = NULL THEN U
    ELSE hb_remove_loop(HbMark(U, "higher"), U.nd[node].parent,
                        U.nd[U.nd[node].parent].llink = node)

\* After a rotation at parent the subtree's root is parent->parent.
hb_after(U, parent) == IF U.fail THEN U ELSE hb_higher(U, U.nd[parent].parent)

\* After a single rotation: if (!rot_xxx(tree, parent)) break;
hb_after_single(r, parent) ==
    IF ~r.hc THEN HbMark(r.T, "same_height") ELSE hb_after(r.T, parent)

hb_remove_loop(T, parent, left) ==
    IF left
    THEN LET T1 == [T EXCEPT !.nd[parent].bal = @ + 1] IN
         IF T1.nd[parent].bal = 0 THEN hb_higher(T1, parent)
         ELSE IF T1.nd[parent].bal = 2
         THEN IF T1.nd[parent].rlink = NULL THEN HbAbort(T1)
              ELSE IF T1.nd[T1.nd[parent].rlink].bal < 0
              THEN hb_after(rot_left(rot_right(T1, T1.nd[parent].rlink).T, parent).T, parent)
              ELSE IF T1.nd[T1.nd[parent].rlink].rlink = NULL THEN HbAbort(T1)
              ELSE hb_after_single(rot_left(T1, parent), parent)
         ELSE T1
    ELSE LET T1 == [T EXCEPT !.nd[parent].bal = @ - 1] IN
         IF T1.nd[parent].bal = 0 THEN hb_higher(T1, parent)
         ELSE IF T1.nd[parent].bal = -2
         THEN IF T1.nd[parent].llink = NULL THEN HbAbort(T1)
              ELSE IF T1.nd[T1.nd[parent].llink].bal > 0
              THEN hb_after(rot_right(rot_left(T1, T1.nd[parent].llink).T, parent).T, parent)
              ELSE IF T1.nd[T1.nd[parent].llink].llink = NULL THEN HbAbort(T1)
              ELSE hb_after_single(rot_right(T1, parent), parent)
         ELSE T1

\* hb_swap_out that swaps the keys and leaves the data where they were.
hb_swap_out_keys_only(T, f) ==
    IF T.nd[f.node].llink # NULL /\ T.nd[f.node].rlink # NULL
    THEN LET out == node_min(T.nd, T.nd[f.node].rlink) IN
         [T |-> [HbMark(T, "swap") EXCEPT !.nd[f.node].key = T.nd[out].key,
                          !.nd[out].key = T.nd[f.node].key],
          node |-> out, parent |-> T.nd[out].parent]
    ELSE [T |-> T, node |-> f.node, parent |-> f.parent]

\* hb_swap_out that copies the successor's entry up and leaves the
\* successor node holding its own entry.
hb_swap_out_copy_up(T, f) ==
    IF T.nd[f.node].llink # NULL /\ T.nd[f.node].rlink # NULL
    THEN LET out == node_min(T.nd, T.nd[f.node].rlink) IN
         [T |-> [HbMark(T, "swap") EXCEPT !.nd[f.node].key = T.nd[out].key,
                          !.nd[f.node].datum = T.nd[out].datum],
          node |-> out, parent |-> T.nd[out].parent]
    ELSE [T |-> T, node |-> f.node, parent |-> f.parent]

\* if (node->llink && node->rlink) { swap with the in-order successor }
hb_swap_out(T, f) ==
    IF T.nd[f.node].llink # NULL /\ T.nd[f.node].rlink # NULL
    THEN LET out == node_min(T.nd, T.nd[f.node].rlink) IN
         [T |-> [HbMark(T, "swap") EXCEPT !.nd[f.node].key = T.nd[out].key,
                          !.nd[f.node].datum = T.nd[out].datum,
                          !.nd[out].key = T.nd[f.node].key,
                          !.nd[out].datum = T.nd[f.node].datum],
          node |-> out, parent |-> T.nd[out].parent]
    ELSE [T |-> T, node |-> f.node, parent |-> f.parent]

\* The splice: s gives the tree after the swap, the node to take out and its
\* parent.
hb_splice(s) ==
    LET node == s.node
        parent == s.parent
        out == IF s.T.nd[node].llink # NULL THEN s.T.nd[node].llink ELSE s.T.nd[node].rlink
        T1 == HbDel(s.T, node)
        T2 == [T1 EXCEPT !.nd = HbFree(T1.nd, node)]
        T3 == IF out # NULL THEN [T2 EXCEPT !.nd[out].parent = parent] ELSE T2
    IN IF parent = NULL
       THEN [T |-> [T3 EXCEPT !.root = out, !.count = @ - 1], ret |-> 1]
       ELSE LET left == T3.nd[parent].llink = node
                T4 == IF left THEN [T3 EXCEPT !.nd[parent].llink = out]
                              ELSE [T3 EXCEPT !.nd[parent].rlink = out]
            IN [T |-> [hb_remove_loop(T4, parent, left) EXCEPT !.count = @ - 1],
                ret |-> 1]

hb_tree_remove(T, key) ==
    LET f == hb_find(T.nd, key, T.root, NULL) IN
    IF f.node = NULL THEN [T |-> T, ret |-> 0]
    ELSE hb_splice(hb_swap_out(T, f))

\* while (node) { ... } of hb_tree_clear.
RECURSIVE hb_clear_loop(_, _)
hb_clear_loop(T, node) ==
    IF node = NULL THEN T
    ELSE IF T.nd[node].llink # NULL THEN hb_clear_loop(T, T.nd[node].llink)
    ELSE IF T.nd[node].rlink # NULL THEN hb_clear_loop(T, T.nd[node].rlink)
    ELSE LET T1 == HbDel(T, node)
             parent == T1.nd[node].parent
             T2 == [T1 EXCEPT !.nd = HbFree(T1.nd, node), !.count = @ - 1]
             T3 == IF parent # NULL
                   THEN IF T2.nd[parent].llink = node
                        THEN [T2 EXCEPT !.nd[parent].llink = NULL]
                        ELSE [T2 EXCEPT !.nd[parent].rlink = NULL]
                   ELSE T2
         IN hb_clear_loop(T3, parent)

hb_tree_clear(T) ==
    LET T1 == hb_clear_loop(T, T.root)
        T2 == [T1 EXCEPT !.root = NULL]
    IN [T |-> IF T2.count # 0 THEN HbAbort(T2) ELSE T2, ret |-> T.count]

\* hb_tree_free: out is how many of the container's own blocks (the
\* hb_tree object) are still allocated when it returns, the nodes apart.
hb_tree_free(T) ==
    IF T.root = NULL THEN [T |-> T, ret |-> 0, out |-> 1]
    ELSE [T |-> hb_tree_clear(T).T, ret |-> hb_tree_clear(T).ret, out |-> 0]

hb_tree_count(t) == t.count

\* node_height: the longest path below node, in links.
RECURSIVE node_height(_, _)
node_height(nd, node) ==
    LET l == IF nd[node].llink # NULL THEN node_height(nd, nd[node].llink) + 1 ELSE 0
        r == IF nd[node].rlink # NULL THEN node_height(nd, nd[node].rlink) + 1 ELSE 0
    IN Max(l, r)

\* while (temp && temp->rlink == node) { node = temp; temp = temp->parent; }
RECURSIVE node_next_up(_, _, _)
node_next_up(nd, node, temp) ==
    IF temp # NULL /\ nd[temp].rlink = node
    THEN node_next_up(nd, temp, nd[temp].parent)
    ELSE temp

node_next(nd, node) ==
    IF nd[node].rlink # NULL THEN node_min(nd, nd[node].rlink)
    ELSE node_next_up(nd, node, nd[node].parent)

\* The iterator is its node field; each function gives the new field and
\* the value returned.
hb_itor_first(t) ==
    LET node == IF t.root # NULL THEN node_min(t.nd, t.root) ELSE NULL IN
    [node |-> node, ret |-> IF node # NULL THEN 1 ELSE 0]

hb_itor_next(t, it) ==
    LET node == IF it = NULL THEN hb_itor_first(t).node ELSE node_next(t.nd, it) IN
    [node |-> node, ret |-> IF node # NULL THEN 1 ELSE 0]

hb_itor_search(t, key) ==
    LET node == hb_find(t.nd, key, t.root, NULL).node IN
    [node |-> node, ret |-> IF node # NULL THEN 1 ELSE 0]

\* hb_itor_valid: return itor->node != NULL;
hb_itor_valid(it) == it # NULL

hb_itor_key(t, it) == IF it # NULL THEN t.nd[it].key ELSE NULL

hb_itor_data(t, it) == IF it # NULL THEN t.nd[it].datum ELSE NULL

\* old is *old_datum after the call (NULL here when nothing is written).
hb_itor_set_data(t, it, datum) ==
    IF it = NULL THEN [t |-> t, ret |-> 0, old |-> NULL]
    ELSE [t |-> [t EXCEPT !.nd[it].datum = datum], ret |-> 1, old |-> t.nd[it].datum]

\* while (temp && temp->llink == node) { node = temp; temp = temp->parent; }
RECURSIVE node_prev_up(_, _, _)
node_prev_up(nd, node, temp) ==
    IF temp # NULL /\ nd[temp].llink = node
    THEN node_prev_up(nd, temp, nd[temp].parent)
    ELSE temp

\* node_prev that takes the left child itself, not the largest node below it.
node_prev_left_child(nd, node) ==
    IF nd[node].llink # NULL THEN nd[node].llink
    ELSE node_prev_up(nd, node, nd[node].parent)

node_prev(nd, node) ==
    IF nd[node].llink # NULL THEN node_max(nd, nd[node].llink)
    ELSE node_prev_up(nd, node, nd[node].parent)

hb_itor_last(t) ==
    LET node == IF t.root # NULL THEN node_max(t.nd, t.root) ELSE NULL IN
    [node |-> node, ret |-> IF node # NULL THEN 1 ELSE 0]

hb_itor_prev(t, it) ==
    LET node == IF it = NULL THEN hb_itor_last(t).node ELSE node_prev(t.nd, it) IN
    [node |-> node, ret |-> IF node # NULL THEN 1 ELSE 0]

\* while (count--) if (!hb_itor_prev(itor)) return false; return itor->node != NULL;
\* hb_itor_nextn steps with hb_itor_prev, as hb_itor_prevn does.
RECURSIVE hb_itor_nextn(_, _, _)
hb_itor_nextn(t, it, count) ==
    IF count = 0 THEN [node |-> it, ret |-> IF it # NULL THEN 1 ELSE 0]
    ELSE IF hb_itor_prev(t, it).ret = 0 THEN [node |-> NULL, ret |-> 0]
    ELSE hb_itor_nextn(t, hb_itor_prev(t, it).node, count - 1)

RECURSIVE hb_itor_prevn(_, _, _)
hb_itor_prevn(t, it, count) ==
    IF count = 0 THEN [node |-> it, ret |-> IF it # NULL THEN 1 ELSE 0]
    ELSE IF hb_itor_prev(t, it).ret = 0 THEN [node |-> NULL, ret |-> 0]
    ELSE hb_itor_prevn(t, hb_itor_prev(t, it).node, count - 1)

\* for (node = node_min(root); node; node = node_next(node)) of
\* hb_tree_traverse. The visitor is one that returns false in its stop-th
\* call and true before; seen is what it was called with, in order.
RECURSIVE hb_traverse_loop(_, _, _, _, _)
hb_traverse_loop(nd, node, count, stop, seen) ==
    IF node = NULL THEN [ret |-> count, seen |-> seen]
    ELSE IF count + 1 = stop
    THEN [ret |-> count + 1, seen |-> Append(seen, <<nd[node].key, nd[node].datum>>)]
    ELSE hb_traverse_loop(nd, node_next(nd, node), count + 1, stop,
                          Append(seen, <<nd[node].key, nd[node].datum>>))

\* hb_tree_traverse starting at the root instead of node_min(root).
hb_tree_traverse_from_root(t, stop) ==
    IF t.root = NULL THEN [ret |-> 0, seen |-> <<>>]
    ELSE hb_traverse_loop(t.nd, t.root, 0, stop, <<>>)

hb_tree_traverse(t, stop) ==
    IF t.root = NULL THEN [ret |-> 0, seen |-> <<>>]
    ELSE hb_traverse_loop(t.nd, node_min(t.nd, t.root), 0, stop, <<>>)

\* Renaming of the live nodes 1..n in key order (equal keys: in address order).
HbRank(nd, i) ==
    1 + Cardinality({j \in DOMAIN nd :
                       \/ nd[j].key.ord < nd[i].key.ord
                       \/ nd[j].key.ord = nd[i].key.ord /\ j < i})

HbPtr(nd, p) ==
    IF p = NULL THEN NULL ELSE IF p \in DOMAIN nd THEN HbRank(nd, p) ELSE DANGLING

HbRelocate(T) ==
    LET nd == T.nd
        n == Cardinality(DOMAIN nd)
        at == [r \in 1..n |-> CHOOSE i \in DOMAIN nd : HbRank(nd, i) = r]
    IN [root |-> HbPtr(nd, T.root), count |-> T.count, del_func |-> T.del_func,
        nd |-> [r \in 1..n |->
                  [key |-> nd[at[r]].key, datum |-> nd[at[r]].datum,
                   llink |-> HbPtr(nd, nd[at[r]].llink),
                   rlink |-> HbPtr(nd, nd[at[r]].rlink),
                   parent |-> HbPtr(nd, nd[at[r]].parent),
                   bal |-> nd[at[r]].bal]]]

\* ================================================================ skiplist.c

MAX_LINK == 32

\* An unsigned 32-bit value is kept as its two 16-bit halves.
U32(hi, lo) == [hi |-> hi, lo |-> lo]

Pow2(e) == 2 ^ e

\* r > (1U << e), for 0 <= e <= 31.
U32GtShift(r, e) ==
    IF e >= 16 THEN r.hi > Pow2(e - 16) \/ (r.hi = Pow2(e - 16) /\ r.lo > 0)
    ELSE r.hi > 0 \/ r.lo > Pow2(e)

\* Generator outputs the model draws: the seed is rand(), so the next output
\* r = randgen * RGEN_A + RGEN_M is taken as any 32-bit value; these stand on
\* and on either side of the thresholds 1U << (32 - i) for the first levels.
RandOutputs ==
    {U32(0, 0), U32(Pow2(14), 1), U32(Pow2(15), 0), U32(Pow2(15), 1)}

\* for (; i+1 < list->max_link; ++i) if (r > (1U << (32-i))) break;
RECURSIVE rand_loop(_, _, _)
rand_loop(max_link, r, i) ==
    IF i + 1 < max_link
    THEN IF U32GtShift(r, 32 - i) THEN i ELSE rand_loop(max_link, r, i + 1)
    ELSE i

rand_link_count(max_link, r) == rand_loop(max_link, r, 1)

skip_node_new(key, datum, link_count) ==
    [key |-> key, datum |-> datum, prev |-> NULL, link_count |-> link_count,
     link |-> [k \in 0..(link_count - 1) |-> NULL]]

\* skiplist_new: max_link is clamped to MAX_LINK; the head is a node of
\* max_link links with no key and no datum.
skiplist_new(max_link) ==
    LET ml == IF max_link > MAX_LINK THEN MAX_LINK ELSE max_link IN
    [max_link |-> ml, top_link |-> 0, count |-> 0, del_func |-> TRUE,
     nd |-> (HEAD :> skip_node_new(NULL, NULL, ml))]

SkipEnter(l) == [max_link |-> l.max_link, top_link |-> l.top_link, count |-> l.count,
                 del_func |-> l.del_func, nd |-> l.nd, fail |-> FALSE, del |-> <<>>,
                 path |-> {}]

SkipMark(L, tag) == [L EXCEPT !.path = @ \cup {tag}]

SkipAbort(L) == [L EXCEPT !.fail = TRUE]

SkipFree(nd, x) == [i \in (DOMAIN nd) \ {x} |-> nd[i]]

SkipDel(L, x) ==
    IF L.del_func THEN [L EXCEPT !.del = Append(@, <<L.nd[x].key, L.nd[x].datum>>)]
    ELSE L

\* skip_node *update[MAX_LINK] = { 0 };
NoUpdate == [k \in 0..(MAX_LINK - 1) |-> NULL]

\* skip_advance that also steps over a node with an equal key (>= 0).
RECURSIVE skip_advance_over_equal(_, _, _, _)
skip_advance_over_equal(nd, x, k, key) ==
    IF nd[x].link[k] # NULL /\ cmp_func(key, nd[nd[x].link[k]].key) >= 0
    THEN skip_advance_over_equal(nd, nd[x].link[k], k, key)
    ELSE x

\* while (x->link[k] && list->cmp_func(key, x->link[k]->key) > 0) x = x->link[k];
RECURSIVE skip_advance(_, _, _, _)
skip_advance(nd, x, k, key) ==
    IF nd[x].link[k] # NULL /\ cmp_func(key, nd[nd[x].link[k]].key) > 0
    THEN skip_advance(nd, nd[x].link[k], k, key)
    ELSE x

\* for (unsigned k = list->top_link+1; k-->0; ) { ASSERT; advance; update[k] = x; }
\* of skiplist_insert and skiplist_remove; k is the loop variable before its
\* decrement.
RECURSIVE skip_descend(_, _, _, _, _)
skip_descend(nd, x, k, key, update) ==
    IF k = 0 THEN [x |-> x, update |-> update, fail |-> FALSE]
    ELSE IF ~(nd[x].link_count > k - 1) THEN [x |-> x, update |-> update, fail |-> TRUE]
    ELSE LET y == skip_advance(nd, x, k - 1, key) IN
         skip_descend(nd, y, k - 1, key, [update EXCEPT ![k - 1] = y])

\* for (unsigned k = list->top_link+1; k <= nlinks; k++) { ASSERT(!update[k]); update[k] = list->head; }
RECURSIVE skip_raise(_, _, _)
skip_raise(update, k, nlinks) ==
    IF k > nlinks THEN [update |-> update, fail |-> FALSE]
    ELSE IF update[k] # NULL THEN [update |-> update, fail |-> TRUE]
    ELSE skip_raise([update EXCEPT ![k] = HEAD], k + 1, nlinks)

\* skip_splice that links the new node at level 0 only.
skip_splice_one_level(L, x, update, k, nlinks) ==
    IF k >= nlinks THEN L
    ELSE [L EXCEPT !.nd[x].link[k] = L.nd[update[k]].link[k],
                   !.nd[update[k]].link[k] = x]

\* for (unsigned k = 0; k < nlinks; k++) { ASSERT; x->link[k] = update[k]->link[k]; update[k]->link[k] = x; }
RECURSIVE skip_splice(_, _, _, _, _)
skip_splice(L, x, update, k, nlinks) ==
    IF k >= nlinks THEN L
    ELSE IF ~(L.nd[update[k]].link_count > k) THEN SkipAbort(L)
    ELSE skip_splice([L EXCEPT !.nd[x].link[k] = L.nd[update[k]].link[k],
                               !.nd[update[k]].link[k] = x],
                     x, update, k + 1, nlinks)

\* node_insert that raises top_link before it allocates.
node_insert_raises_first(L, key, datum, update, r, ok) ==
    LET nlinks == rand_link_count(L.max_link, r) IN
    IF ~(nlinks < L.max_link) THEN [L |-> SkipAbort(L), x |-> NULL, alloc |-> "none"]
    ELSE IF ~ok THEN [L |-> [L EXCEPT !.top_link = IF @ < nlinks THEN nlinks ELSE @],
                      x |-> NULL, alloc |-> "failed"]
    ELSE
    LET x == Cardinality(DOMAIN L.nd)
        nd0 == [i \in (DOMAIN L.nd) \cup {x} |->
                  IF i = x THEN skip_node_new(key, datum, nlinks) ELSE L.nd[i]]
        up == IF L.top_link < nlinks
              THEN skip_raise(update, L.top_link + 1, nlinks)
              ELSE [update |-> update, fail |-> FALSE]
        L1 == [(IF L.top_link < nlinks THEN SkipMark(L, "raise") ELSE L)
                  EXCEPT !.nd = nd0,
                         !.top_link = IF L.top_link < nlinks THEN nlinks ELSE @]
    IN IF up.fail THEN [L |-> SkipAbort(L1), x |-> x, alloc |-> "done"]
       ELSE
       LET u == up.update
           L2 == [L1 EXCEPT !.nd[x].prev = u[0]]
           L3 == IF L2.nd[u[0]].link[0] # NULL
                 THEN [L2 EXCEPT !.nd[L2.nd[u[0]].link[0]].prev = x]
                 ELSE L2
           L4 == skip_splice(L3, x, u, 0, nlinks)
       IN [L |-> IF L4.fail THEN L4 ELSE [L4 EXCEPT !.count = @ + 1], x |-> x,
           alloc |-> "done"]

\* node_insert: r is the generator's output, ok whether MALLOC succeeds.
\* x is the new node, NULL when the allocation failed.
node_insert(L, key, datum, update, r, ok) ==
    LET nlinks == rand_link_count(L.max_link, r) IN
    IF ~(nlinks < L.max_link) THEN [L |-> SkipAbort(L), x |-> NULL, alloc |-> "none"]
    ELSE IF ~ok THEN [L |-> L, x |-> NULL, alloc |-> "failed"]
    ELSE
    LET x == Cardinality(DOMAIN L.nd)
        nd0 == [i \in (DOMAIN L.nd) \cup {x} |->
                  IF i = x THEN skip_node_new(key, datum, nlinks) ELSE L.nd[i]]
        up == IF L.top_link < nlinks
              THEN skip_raise(update, L.top_link + 1, nlinks)
              ELSE [update |-> update, fail |-> FALSE]
        L1 == [(IF L.top_link < nlinks THEN SkipMark(L, "raise") ELSE L)
                  EXCEPT !.nd = nd0,
                         !.top_link = IF L.top_link < nlinks THEN nlinks ELSE @]
    IN IF up.fail THEN [L |-> SkipAbort(L1), x |-> x, alloc |-> "done"]
       ELSE
       LET u == up.update
           L2 == [L1 EXCEPT !.nd[x].prev = u[0]]
           L3 == IF L2.nd[u[0]].link[0] # NULL
                 THEN [L2 EXCEPT !.nd[L2.nd[u[0]].link[0]].prev = x]
                 ELSE L2
           L4 == skip_splice(L3, x, u, 0, nlinks)
       IN [L |-> IF L4.fail THEN L4 ELSE [L4 EXCEPT !.count = @ + 1], x |-> x,
           alloc |-> "done"]

\* skiplist_insert that replaces the datum before it looks at overwrite.
skiplist_insert_writes_first(L, key, datum, overwrite, r, ok) ==
    LET d == skip_descend(L.nd, HEAD, L.top_link + 1, key, NoUpdate) IN
    IF d.fail THEN [L |-> SkipAbort(L), ret |-> 0, alloc |-> "none"]
    ELSE
    LET x == L.nd[d.x].link[0] IN
    IF x # NULL /\ cmp_func(key, L.nd[x].key) = 0
    THEN IF ~overwrite THEN [L |-> [L EXCEPT !.nd[x].datum = datum], ret |-> 1,
                             alloc |-> "none"]
         ELSE [L |-> [SkipDel(L, x) EXCEPT !.nd[x].key = key, !.nd[x].datum = datum],
               ret |-> 0, alloc |-> "none"]
    ELSE LET n == node_insert(L, key, datum, d.update, r, ok) IN
         [L |-> n.L, ret |-> IF n.x # NULL THEN 0 ELSE -1, alloc |-> n.alloc]

skiplist_insert(L, key, datum, overwrite, r, ok) ==
    LET d == skip_descend(L.nd, HEAD, L.top_link + 1, key, NoUpdate) IN
    IF d.fail THEN [L |-> SkipAbort(L), ret |-> 0, alloc |-> "none"]
    ELSE
    LET x == L.nd[d.x].link[0] IN
    IF x # NULL /\ cmp_func(key, L.nd[x].key) = 0
    THEN IF ~overwrite THEN [L |-> L, ret |-> 1, alloc |-> "none"]
         ELSE [L |-> [SkipDel(L, x) EXCEPT !.nd[x].key = key, !.nd[x].datum = datum],
               ret |-> 0, alloc |-> "none"]
    ELSE LET n == node_insert(L, key, datum, d.update, r, ok) IN
         [L |-> n.L, ret |-> IF n.x # NULL THEN 0 ELSE -1, alloc |-> n.alloc]

\* The loops of skiplist_probe: found is the node with an equal key met on
\* the way down, NULL when the descent reached the bottom without one.
RECURSIVE skip_probe_advance(_, _, _, _)
skip_probe_advance(nd, x, k, key) ==
    IF nd[x].link[k] = NULL THEN [x |-> x, found |-> NULL, fail |-> FALSE]
    ELSE LET cmp == cmp_func(key, nd[nd[x].link[k]].key)
             y == nd[x].link[k]
         IN IF cmp < 0 THEN [x |-> x, found |-> NULL, fail |-> FALSE]
            ELSE IF ~(nd[y].link_count > k) THEN [x |-> y, found |-> NULL, fail |-> TRUE]
            ELSE IF cmp = 0 THEN [x |-> y, found |-> y, fail |-> FALSE]
            ELSE skip_probe_advance(nd, y, k, key)

RECURSIVE skip_probe_descend(_, _, _, _, _)
skip_probe_descend(nd, x, k, key, update) ==
    IF k = 0 THEN [x |-> x, update |-> update, found |-> NULL, fail |-> FALSE]
    ELSE IF ~(nd[x].link_count > k - 1)
    THEN [x |-> x, update |-> update, found |-> NULL, fail |-> TRUE]
    ELSE LET a == skip_probe_advance(nd, x, k - 1, key) IN
         IF a.fail \/ a.found # NULL
         THEN [x |-> a.x, update |-> update, found |-> a.found, fail |-> a.fail]
         ELSE skip_probe_descend(nd, a.x, k - 1, key, [update EXCEPT ![k - 1] = a.x])

skiplist_probe(L, key, datum, r, ok) ==
    LET d == skip_probe_descend(L.nd, HEAD, L.top_link + 1, key, NoUpdate) IN
    IF d.fail THEN [L |-> SkipAbort(L), ret |-> 0, alloc |-> "none", out |-> datum]
    ELSE IF d.found # NULL
    THEN [L |-> L, ret |-> 0, alloc |-> "none", out |-> L.nd[d.found].datum]
    ELSE LET n == node_insert(L, key, datum, d.update, r, ok) IN
         [L |-> n.L, ret |-> IF n.x # NULL THEN 1 ELSE -1, alloc |-> n.alloc, out |-> datum]

\* The loops of skiplist_search (no ASSERT, no update).
RECURSIVE skip_search_advance(_, _, _, _)
skip_search_advance(nd, x, k, key) ==
    IF nd[x].link[k] = NULL THEN [x |-> x, found |-> NULL]
    ELSE LET cmp == cmp_func(key, nd[nd[x].link[k]].key) IN
         IF cmp < 0 THEN [x |-> x, found |-> NULL]
         ELSE IF cmp = 0 THEN [x |-> nd[x].link[k], found |-> nd[x].link[k]]
         ELSE skip_search_advance(nd, nd[x].link[k], k, key)

RECURSIVE skip_search_descend(_, _, _, _)
skip_search_descend(nd, x, k, key) ==
    IF k = 0 THEN NULL
    ELSE LET a == skip_search_advance(nd, x, k - 1, key) IN
         IF a.found # NULL THEN a.found
         ELSE skip_search_descend(nd, a.x, k - 1, key)

skiplist_search(l, key) ==
    LET x == skip_search_descend(l.nd, HEAD, l.top_link + 1, key) IN
    IF x # NULL THEN l.nd[x].datum ELSE NULL

\* for (unsigned k = 0; k <= list->top_link; k++) { ASSERTs; if (update[k]->link[k] != x) break; ... }
RECURSIVE skip_unlink(_, _, _, _)
skip_unlink(L, x, update, k) ==
    IF k > L.top_link THEN L
    ELSE IF update[k] = NULL THEN SkipAbort(L)
    ELSE IF ~(L.nd[update[k]].link_count > k) THEN SkipAbort(L)
    ELSE IF L.nd[update[k]].link[k] # x THEN SkipMark(L, "break")
    ELSE skip_unlink([L EXCEPT !.nd[update[k]].link[k] = L.nd[x].link[k]], x, update, k + 1)

\* skip_shrink that lowers top_link to 0 whatever the head still links.
skip_shrink_to_bottom(L) ==
    IF L.top_link > 0 THEN [SkipMark(L, "shrink") EXCEPT !.top_link = 0] ELSE L

\* while (list->top_link > 0 && !list->head->link[list->top_link]) list->top_link--;
RECURSIVE skip_shrink(_)
skip_shrink(L) ==
    IF L.top_link > 0 /\ L.nd[HEAD].link[L.top_link] = NULL
    THEN skip_shrink([SkipMark(L, "shrink") EXCEPT !.top_link = @ - 1])
    ELSE L

\* skiplist_remove without list->count--.
skiplist_remove_keeps_count(L, key) ==
    LET d == skip_descend(L.nd, HEAD, L.top_link + 1, key, NoUpdate) IN
    IF d.fail THEN [L |-> SkipAbort(L), ret |-> 0]
    ELSE
    LET x == L.nd[d.x].link[0] IN
    IF x = NULL \/ cmp_func(key, L.nd[x].key) # 0 THEN [L |-> L, ret |-> 0]
    ELSE LET L1 == skip_unlink(L, x, d.update, 0) IN
         IF L1.fail THEN [L |-> L1, ret |-> 0]
         ELSE LET L2 == SkipDel(L1, x)
                  L3 == [L2 EXCEPT !.nd = SkipFree(L2.nd, x)]
                  L4 == skip_shrink(L3)
              IN [L |-> L4, ret |-> 1]

\* skiplist_remove that lowers top_link before it knows the key is stored.
skiplist_remove_shrinks_first(L, key) ==
    LET d == skip_descend(L.nd, HEAD, L.top_link + 1, key, NoUpdate) IN
    IF d.fail THEN [L |-> SkipAbort(L), ret |-> 0]
    ELSE
    LET x == L.nd[d.x].link[0] IN
    IF x = NULL \/ cmp_func(key, L.nd[x].key) # 0 THEN [L |-> skip_shrink(L), ret |-> 0]
    ELSE LET L1 == skip_unlink(L, x, d.update, 0) IN
         IF L1.fail THEN [L |-> L1, ret |-> 0]
         ELSE LET L2 == SkipDel(L1, x)
                  L3 == [L2 EXCEPT !.nd = SkipFree(L2.nd, x)]
                  L4 == skip_shrink(L3)
              IN [L |-> [L4 EXCEPT !.count = @ - 1], ret |-> 1]

skiplist_remove(L, key) ==
    LET d == skip_descend(L.nd, HEAD, L.top_link + 1, key, NoUpdate) IN
    IF d.fail THEN [L |-> SkipAbort(L), ret |-> 0]
    ELSE
    LET x == L.nd[d.x].link[0] IN
    IF x = NULL \/ cmp_func(key, L.nd[x].key) # 0 THEN [L |-> L, ret |-> 0]
    ELSE LET L1 == skip_unlink(L, x, d.update, 0) IN
         IF L1.fail THEN [L |-> L1, ret |-> 0]
         ELSE LET L2 == SkipDel(L1, x)
                  L3 == [L2 EXCEPT !.nd = SkipFree(L2.nd, x)]
                  L4 == skip_shrink(L3)
              IN [L |-> [L4 EXCEPT !.count = @ - 1], ret |-> 1]

\* while (node) { ... } of skiplist_clear.
RECURSIVE skip_clear_loop(_, _)
skip_clear_loop(L, node) ==
    IF node = NULL THEN L
    ELSE LET next == L.nd[node].link[0]
             L1 == SkipDel(L, node)
         IN skip_clear_loop([L1 EXCEPT !.nd = SkipFree(L1.nd, node)], next)

\* list->head->link[list->top_link] = NULL; while (list->top_link) list->head->link[--list->top_link] = NULL;
RECURSIVE skip_clear_head(_)
skip_clear_head(L) ==
    IF L.top_link # 0
    THEN skip_clear_head([L EXCEPT !.nd[HEAD].link[L.top_link - 1] = NULL,
                                   !.top_link = @ - 1])
    ELSE L

\* skiplist_clear without the loop that lowers top_link and clears the head.
skiplist_clear_keeps_head(L) ==
    LET L1 == skip_clear_loop(L, L.nd[HEAD].link[0])
        L2 == [L1 EXCEPT !.count = 0, !.nd[HEAD].link[L1.top_link] = NULL]
    IN [L |-> L2, ret |-> L.count]

skiplist_clear(L) ==
    LET L1 == skip_clear_loop(L, L.nd[HEAD].link[0])
        L2 == [L1 EXCEPT !.count = 0, !.nd[HEAD].link[L1.top_link] = NULL]
    IN [L |-> skip_clear_head(L2), ret |-> L.count]

\* skiplist_free: out is how many of the container's own blocks (the head
\* node and the skiplist object) are still allocated when it returns, the
\* nodes apart. The record keeps the fields as free left them.
skiplist_free(L) ==
    [L |-> skiplist_clear(L).L, ret |-> skiplist_clear(L).ret, out |-> 0]

skiplist_count(l) == l.count

\* #define VALID(itor) ((itor)->node && (itor)->node != (itor)->list->head)
VALID(it) == it # NULL /\ it # HEAD

skiplist_itor_first(l) ==
    LET node == l.nd[HEAD].link[0] IN
    [node |-> node, ret |-> IF VALID(node) THEN 1 ELSE 0]

skiplist_itor_next(l, it) ==
    IF it = NULL THEN skiplist_itor_first(l)
    ELSE LET node == l.nd[it].link[0] IN
         [node |-> node, ret |-> IF VALID(node) THEN 1 ELSE 0]

skiplist_itor_search(l, key) ==
    LET x == skip_search_descend(l.nd, HEAD, l.top_link + 1, key) IN
    [node |-> x, ret |-> IF x # NULL THEN 1 ELSE 0]

skiplist_itor_key(l, it) == IF it # NULL THEN l.nd[it].key ELSE NULL

skiplist_itor_data(l, it) == IF it # NULL THEN l.nd[it].datum ELSE NULL

skiplist_itor_set_data(l, it, datum) ==
    IF it = NULL THEN [l |-> l, ret |-> 0, old |-> NULL]
    ELSE [l |-> [l EXCEPT !.nd[it].datum = datum], ret |-> 1, old |-> l.nd[it].datum]

\* while (x->link[k]) x = x->link[k]; of skiplist_itor_last.
RECURSIVE skip_last_advance(_, _, _)
skip_last_advance(nd, x, k) ==
    IF nd[x].link[k] # NULL THEN skip_last_advance(nd, nd[x].link[k], k) ELSE x

\* for (unsigned k = itor->list->top_link; k-->0;) { ... }; k is the loop
\* variable before its decrement.
RECURSIVE skip_last_descend(_, _, _)
skip_last_descend(nd, x, k) ==
    IF k = 0 THEN x ELSE skip_last_descend(nd, skip_last_advance(nd, x, k - 1), k - 1)

skiplist_itor_last(l) ==
    LET x == skip_last_descend(l.nd, HEAD, l.top_link) IN
    IF x = HEAD THEN [node |-> NULL, ret |-> 0] ELSE [node |-> x, ret |-> 1]

\* What a pointer of the list can hold: NULL, the head, a stored node or the
\* address of a freed node. A read of a field of a freed node gives any of
\* them (u below).
SkipPointers(l) == {NULL, DANGLING} \cup DOMAIN l.nd

\* itor->node = itor->node->link[0] with the node possibly freed.
skip_itor_step_next(l, it, u) ==
    IF it = DANGLING THEN [node |-> u, ret |-> IF VALID(u) THEN 1 ELSE 0]
    ELSE skiplist_itor_next(l, it)

skiplist_itor_prev(l, it, u) ==
    IF it = NULL THEN skiplist_itor_last(l)
    ELSE LET node == IF it = DANGLING THEN u ELSE l.nd[it].prev IN
         [node |-> node, ret |-> IF VALID(node) THEN 1 ELSE 0]

\* while (count--) if (!skiplist_itor_next(itor)) return false; return VALID(itor);
RECURSIVE skiplist_itor_nextn(_, _, _, _)
skiplist_itor_nextn(l, it, count, u) ==
    IF count = 0 THEN [node |-> it, ret |-> IF VALID(it) THEN 1 ELSE 0]
    ELSE IF skip_itor_step_next(l, it, u).ret = 0
    THEN [node |-> skip_itor_step_next(l, it, u).node, ret |-> 0]
    ELSE skiplist_itor_nextn(l, skip_itor_step_next(l, it, u).node, count - 1, u)

RECURSIVE skiplist_itor_prevn(_, _, _, _)
skiplist_itor_prevn(l, it, count, u) ==
    IF count = 0 THEN [node |-> it, ret |-> IF VALID(it) THEN 1 ELSE 0]
    ELSE IF skiplist_itor_prev(l, it, u).ret = 0
    THEN [node |-> skiplist_itor_prev(l, it, u).node, ret |-> 0]
    ELSE skiplist_itor_prevn(l, skiplist_itor_prev(l, it, u).node, count - 1, u)

\* for (node = head->link[0]; node; node = node->link[0]) of
\* skiplist_traverse, with the visitor of hb_tree_traverse.
RECURSIVE skip_traverse_loop(_, _, _, _, _)
skip_traverse_loop(nd, node, count, stop, seen) ==
    IF node = NULL THEN [ret |-> count, seen |-> seen]
    ELSE IF count + 1 = stop
    THEN [ret |-> count + 1, seen |-> Append(seen, <<nd[node].key, nd[node].datum>>)]
    ELSE skip_traverse_loop(nd, nd[node].link[0], count + 1, stop,
                            Append(seen, <<nd[node].key, nd[node].datum>>))

\* skiplist_traverse counting a call only once the visitor returned true.
skiplist_traverse_counts_after(l, stop) ==
    LET R == skip_traverse_loop(l.nd, l.nd[HEAD].link[0], 0, stop, <<>>)
    IN [ret |-> IF R.ret = stop THEN R.ret - 1 ELSE R.ret, seen |-> R.seen]

skiplist_traverse(l, stop) == skip_traverse_loop(l.nd, l.nd[HEAD].link[0], 0, stop, <<>>)

\* while (node != NULL) { ... node = node->link[0]; } of skiplist_verify:
\* whether every assertion on the nodes from node on holds.
RECURSIVE skip_verify_loop(_, _)
skip_verify_loop(l, node) ==
    IF node = NULL THEN TRUE
    ELSE /\ l.nd[node].link_count >= 1
         /\ l.nd[node].link_count <= l.top_link
         /\ \A k \in 0..(l.nd[node].link_count - 1) :
               l.nd[node].link[k] # NULL => l.nd[l.nd[node].link[k]].link_count >= k
         /\ skip_verify_loop(l, l.nd[node].link[0])

\* skiplist_verify: TRUE when none of its assertions fails.
skiplist_verify(l) ==
    /\ l.top_link <= l.max_link
    /\ skip_verify_loop(l, l.nd[HEAD].link[0])

\* Renaming of the live nodes 1..n in key order; the head keeps its name.
SkipRank(nd, i) ==
    1 + Cardinality({j \in (DOMAIN nd) \ {HEAD} :
                       \/ nd[j].key.ord < nd[i].key.ord
                       \/ nd[j].key.ord = nd[i].key.ord /\ j < i})

SkipPtr(nd, p) ==
    IF p = NULL THEN NULL
    ELSE IF p = HEAD THEN HEAD
    ELSE IF p \in DOMAIN nd THEN SkipRank(nd, p)
    ELSE DANGLING

SkipRelocate(L) ==
    LET nd == L.nd
        n == Cardinality(DOMAIN nd) - 1
        at == [r \in {HEAD} \cup 1..n |->
                 IF r = HEAD THEN HEAD
                 ELSE CHOOSE i \in (DOMAIN nd) \ {HEAD} : SkipRank(nd, i) = r]
    IN [max_link |-> L.max_link, top_link |-> L.top_link, count |-> L.count,
        del_func |-> L.del_func,
        nd |-> [r \in {HEAD} \cup 1..n |->
                  [key |-> nd[at[r]].key, datum |-> nd[at[r]].datum,
                   prev |-> SkipPtr(nd, nd[at[r]].prev),
                   link_count |-> nd[at[r]].link_count,
                   link |-> [k \in 0..(nd[at[r]].link_count - 1) |->
                               SkipPtr(nd, nd[at[r]].link[k])]]]]

\* ================================================================ the dict

AllKeys == 1..Max(Max(MaxHbKey, MaxSkipKey), DeepKey)

\* The reference map the container is compared with: the datum each key
\* maps to, NULL for none.
RefInsert(m, k, v, overwrite, ok) ==
    IF m[k] # NULL THEN (IF overwrite THEN [m EXCEPT ![k] = v] ELSE m)
    ELSE IF ok THEN [m EXCEPT ![k] = v] ELSE m

RefProbe(m, k, v, ok) ==
    IF m[k] # NULL THEN m ELSE IF ok THEN [m EXCEPT ![k] = v] ELSE m

RefRemove(m, k) == [m EXCEPT ![k] = NULL]

RefClear(m) == [k \in DOMAIN m |-> NULL]

RefSetData(m, k, v) == [m EXCEPT ![k] = v]

\* What the call in progress was given and what it gave back: ret is the
\* return value (bool as 1/0), out is *datum after a probe or the old datum
\* of set_data, del the calls made to the cleanup callback in order, alloc
\* the outcome of the call's MALLOC ("none" when it made none).
Call(op, k, v, overwrite, alloc, ret, out, del, path) ==
    [op |-> op, k |-> k, v |-> v, overwrite |-> overwrite, alloc |-> alloc,
     ret |-> ret, out |-> out, del |-> del, path |-> path]

NoCall == Call("idle", NULL, NULL, FALSE, "none", NULL, NULL, <<>>, {})

Idle == last.op = "idle" /\ ~failed

\* hb_dict_new / skiplist_dict_new: the dict is one engine or the other.
\* A skip list of max_link 1 cannot take an entry (node_insert asserts
\* nlinks < max_link), so the lists here have max_link >= 2.
Init ==
    /\ vtable \in {"hb_tree", "skiplist"}
    /\ tree = hb_tree_new
    /\ \E max_link \in 2..MaxLinkArg : list = skiplist_new(max_link)
    /\ itor = NULL
    /\ last = NoCall
    /\ failed = FALSE
    /\ ref = [k \in AllKeys |-> NULL]

\* The caller takes the result of the call; the next call can be made.
Return ==
    /\ last.op # "idle" /\ ~failed
    /\ last' = NoCall
    /\ UNCHANGED <<vtable, tree, list, itor, failed, ref>>

\* The call's result R (T the tree as the call left it, with what the call
\* logged) becomes the new state; the live nodes are renamed.
HbTake(op, k, v, overwrite, R) ==
    /\ tree' = HbRelocate(R.T)
    /\ failed' = R.T.fail
    /\ last' = Call(op, k, v, overwrite, R.alloc, R.ret, R.out, R.T.del, R.T.path)

SkipTake(op, k, v, overwrite, R) ==
    /\ list' = SkipRelocate(R.L)
    /\ failed' = R.L.fail
    /\ last' = Call(op, k, v, overwrite, R.alloc, R.ret, R.out, R.L.del, R.L.path)

\* Calls that change the container are made with no positioned iterator:
\* the caller may not use an iterator across them.
HbInsert(k, v, overwrite, ok) ==
    /\ vtable = "hb_tree" /\ Idle /\ itor = NULL
    /\ HbTake("insert", k, v, overwrite,
          hb_tree_insert(HbEnter(tree), KeyObj(k, v), v, overwrite, ok) @@ [out |-> NULL])
    /\ ref' = RefInsert(ref, k, v, overwrite, ok)
    /\ UNCHANGED <<vtable, list, itor>>

HbProbe(k, v, ok) ==
    /\ vtable = "hb_tree" /\ Idle /\ itor = NULL
    /\ HbTake("probe", k, v, FALSE,
          hb_tree_probe(HbEnter(tree), KeyObj(k, v), v, ok))
    /\ ref' = RefProbe(ref, k, v, ok)
    /\ UNCHANGED <<vtable, list, itor>>

HbRemove(k) ==
    /\ vtable = "hb_tree" /\ Idle /\ itor = NULL
    /\ HbTake("remove", k, NULL, FALSE,
          hb_tree_remove(HbEnter(tree), KeyObj(k, NULL)) @@ [alloc |-> "none", out |-> NULL])
    /\ ref' = RefRemove(ref, k)
    /\ UNCHANGED <<vtable, list, itor>>

HbSearch(k) ==
    /\ vtable = "hb_tree" /\ Idle
    /\ last' = Call("search", k, NULL, FALSE, "none",
                    hb_tree_search(tree, KeyObj(k, NULL)), NULL, <<>>, {})
    /\ UNCHANGED <<vtable, tree, list, itor, failed, ref>>

HbClear ==
    /\ vtable = "hb_tree" /\ Idle /\ itor = NULL
    /\ HbTake("clear", NULL, NULL, FALSE,
          hb_tree_clear(HbEnter(tree)) @@ [alloc |-> "none", out |-> NULL])
    /\ ref' = RefClear(ref)
    /\ UNCHANGED <<vtable, list, itor>>

HbCount ==
    /\ vtable = "hb_tree" /\ Idle
    /\ last' = Call("count", NULL, NULL, FALSE, "none", hb_tree_count(tree), NULL, <<>>, {})
    /\ UNCHANGED <<vtable, tree, list, itor, failed, ref>>

SkipInsert(k, v, overwrite, r, ok) ==
    /\ vtable = "skiplist" /\ Idle /\ itor = NULL
    /\ SkipTake("insert", k, v, overwrite,
          skiplist_insert(SkipEnter(list), KeyObj(k, v), v, overwrite, r, ok) @@ [out |-> NULL])
    /\ ref' = RefInsert(ref, k, v, overwrite, ok)
    /\ UNCHANGED <<vtable, tree, itor>>

SkipProbe(k, v, r, ok) ==
    /\ vtable = "skiplist" /\ Idle /\ itor = NULL
    /\ SkipTake("probe", k, v, FALSE,
          skiplist_probe(SkipEnter(list), KeyObj(k, v), v, r, ok))
    /\ ref' = RefProbe(ref, k, v, ok)
    /\ UNCHANGED <<vtable, tree, itor>>

SkipRemove(k) ==
    /\ vtable = "skiplist" /\ Idle /\ itor = NULL
    /\ SkipTake("remove", k, NULL, FALSE,
          skiplist_remove(SkipEnter(list), KeyObj(k, NULL)) @@ [alloc |-> "none", out |-> NULL])
    /\ ref' = RefRemove(ref, k)
    /\ UNCHANGED <<vtable, tree, itor>>

SkipSearch(k) ==
    /\ vtable = "skiplist" /\ Idle
    /\ last' = Call("search", k, NULL, FALSE, "none",
                    skiplist_search(list, KeyObj(k, NULL)), NULL, <<>>, {})
    /\ UNCHANGED <<vtable, tree, list, itor, failed, ref>>

SkipClear ==
    /\ vtable = "skiplist" /\ Idle /\ itor = NULL
    /\ SkipTake("clear", NULL, NULL, FALSE,
          skiplist_clear(SkipEnter(list)) @@ [alloc |-> "none", out |-> NULL])
    /\ ref' = RefClear(ref)
    /\ UNCHANGED <<vtable, tree, itor>>

SkipCount ==
    /\ vtable = "skiplist" /\ Idle
    /\ last' = Call("count", NULL, NULL, FALSE, "none", skiplist_count(list), NULL, <<>>, {})
    /\ UNCHANGED <<vtable, tree, list, itor, failed, ref>>

HbItorFirst ==
    /\ vtable = "hb_tree" /\ Idle
    /\ LET R == hb_itor_first(tree) IN
       /\ itor' = R.node
       /\ last' = Call("itor_first", NULL, NULL, FALSE, "none", R.ret, NULL, <<>>, {})
    /\ UNCHANGED <<vtable, tree, list, failed, ref>>

HbItorNext ==
    /\ vtable = "hb_tree" /\ Idle
    /\ LET R == hb_itor_next(tree, itor) IN
       /\ itor' = R.node
       /\ last' = Call("itor_next", NULL, NULL, FALSE, "none", R.ret, NULL, <<>>, {})
    /\ UNCHANGED <<vtable, tree, list, failed, ref>>

HbItorSearch(k) ==
    /\ vtable = "hb_tree" /\ Idle
    /\ LET R == hb_itor_search(tree, KeyObj(k, NULL)) IN
       /\ itor' = R.node
       /\ last' = Call("itor_search", k, NULL, FALSE, "none", R.ret, NULL, <<>>, {})
    /\ UNCHANGED <<vtable, tree, list, failed, ref>>

\* The reference map takes the new datum under the key the iterator reports.
HbItorSetData(v) ==
    /\ vtable = "hb_tree" /\ Idle
    /\ LET R == hb_itor_set_data(tree, itor, v) IN
       /\ tree' = R.t
       /\ last' = Call("itor_set_data", NULL, v, FALSE, "none", R.ret, R.old, <<>>, {})
    /\ ref' = IF itor # NULL
              THEN RefSetData(ref, hb_itor_key(tree, itor).ord, v) ELSE ref
    /\ UNCHANGED <<vtable, list, itor, failed>>

HbItorInvalidate ==
    /\ vtable = "hb_tree" /\ Idle /\ itor # NULL
    /\ itor' = NULL
    /\ UNCHANGED <<vtable, tree, list, last, failed, ref>>

SkipItorFirst ==
    /\ vtable = "skiplist" /\ Idle
    /\ LET R == skiplist_itor_first(list) IN
       /\ itor' = R.node
       /\ last' = Call("itor_first", NULL, NULL, FALSE, "none", R.ret, NULL, <<>>, {})
    /\ UNCHANGED <<vtable, tree, list, failed, ref>>

SkipItorNext ==
    /\ vtable = "skiplist" /\ Idle
    /\ LET R == skiplist_itor_next(list, itor) IN
       /\ itor' = R.node
       /\ last' = Call("itor_next", NULL, NULL, FALSE, "none", R.ret, NULL, <<>>, {})
    /\ UNCHANGED <<vtable, tree, list, failed, ref>>

SkipItorSearch(k) ==
    /\ vtable = "skiplist" /\ Idle
    /\ LET R == skiplist_itor_search(list, KeyObj(k, NULL)) IN
       /\ itor' = R.node
       /\ last' = Call("itor_search", k, NULL, FALSE, "none", R.ret, NULL, <<>>, {})
    /\ UNCHANGED <<vtable, tree, list, failed, ref>>

SkipItorSetData(v) ==
    /\ vtable = "skiplist" /\ Idle
    /\ LET R == skiplist_itor_set_data(list, itor, v) IN
       /\ list' = R.l
       /\ last' = Call("itor_set_data", NULL, v, FALSE, "none", R.ret, R.old, <<>>, {})
    /\ ref' = IF VALID(itor)
              THEN RefSetData(ref, skiplist_itor_key(list, itor).ord, v) ELSE ref
    /\ UNCHANGED <<vtable, tree, itor, failed>>

SkipItorInvalidate ==
    /\ vtable = "skiplist" /\ Idle /\ itor # NULL
    /\ itor' = NULL
    /\ UNCHANGED <<vtable, tree, list, last, failed, ref>>

\* traverse with a visitor that stops in its stop-th call: the call record
\* keeps stop as v and what the visitor saw as out.
HbTraverse(stop) ==
    /\ vtable = "hb_tree" /\ Idle
    /\ LET R == hb_tree_traverse(tree, stop) IN
       last' = Call("traverse", NULL, stop, FALSE, "none", R.ret, R.seen, <<>>, {})
    /\ UNCHANGED <<vtable, tree, list, itor, failed, ref>>

SkipTraverse(stop) ==
    /\ vtable = "skiplist" /\ Idle
    /\ LET R == skiplist_traverse(list, stop) IN
       last' = Call("traverse", NULL, stop, FALSE, "none", R.ret, R.seen, <<>>, {})
    /\ UNCHANGED <<vtable, tree, list, itor, failed, ref>>

\* One caller driving an AVL tree and a skip list side by side: each call is
\* made on both with the same arguments, and the call record keeps the two
\* results as pairs (AVL first).
BothTake(op, k, v, overwrite, RT, RL) ==
    /\ tree' = HbRelocate(RT.T)
    /\ list' = SkipRelocate(RL.L)
    /\ failed' = (RT.T.fail \/ RL.L.fail)
    /\ last' = Call(op, k, v, overwrite, RT.alloc, <<RT.ret, RL.ret>>, <<RT.out, RL.out>>,
                    <<RT.T.del, RL.L.del>>, RT.T.path \cup RL.L.path)

BothInsert(k, v, overwrite, r) ==
    /\ vtable = "both" /\ Idle
    /\ BothTake("insert", k, v, overwrite,
          hb_tree_insert(HbEnter(tree), KeyObj(k, v), v, overwrite, TRUE) @@ [out |-> NULL],
          skiplist_insert(SkipEnter(list), KeyObj(k, v), v, overwrite, r, TRUE) @@ [out |-> NULL])
    /\ ref' = RefInsert(ref, k, v, overwrite, TRUE)
    /\ UNCHANGED <<vtable, itor>>

BothProbe(k, v, r) ==
    /\ vtable = "both" /\ Idle
    /\ BothTake("probe", k, v, FALSE,
          hb_tree_probe(HbEnter(tree), KeyObj(k, v), v, TRUE),
          skiplist_probe(SkipEnter(list), KeyObj(k, v), v, r, TRUE))
    /\ ref' = RefProbe(ref, k, v, TRUE)
    /\ UNCHANGED <<vtable, itor>>

BothRemove(k) ==
    /\ vtable = "both" /\ Idle
    /\ BothTake("remove", k, NULL, FALSE,
          hb_tree_remove(HbEnter(tree), KeyObj(k, NULL)) @@ [alloc |-> "none", out |-> NULL],
          skiplist_remove(SkipEnter(list), KeyObj(k, NULL)) @@ [alloc |-> "none", out |-> NULL])
    /\ ref' = RefRemove(ref, k)
    /\ UNCHANGED <<vtable, itor>>

BothClear ==
    /\ vtable = "both" /\ Idle
    /\ BothTake("clear", NULL, NULL, FALSE,
          hb_tree_clear(HbEnter(tree)) @@ [alloc |-> "none", out |-> NULL],
          skiplist_clear(SkipEnter(list)) @@ [alloc |-> "none", out |-> NULL])
    /\ ref' = RefClear(ref)
    /\ UNCHANGED <<vtable, itor>>

BothSearch(k) ==
    /\ vtable = "both" /\ Idle
    /\ last' = Call("search", k, NULL, FALSE, "none",
                    <<hb_tree_search(tree, KeyObj(k, NULL)), skiplist_search(list, KeyObj(k, NULL))>>,
                    <<NULL, NULL>>, <<>>, {})
    /\ UNCHANGED <<vtable, tree, list, itor, failed, ref>>

BothCount ==
    /\ vtable = "both" /\ Idle
    /\ last' = Call("count", NULL, NULL, FALSE, "none",
                    <<hb_tree_count(tree), skiplist_count(list)>>, <<NULL, NULL>>, <<>>, {})
    /\ UNCHANGED <<vtable, tree, list, itor, failed, ref>>

BothTraverse(stop) ==
    /\ vtable = "both" /\ Idle
    /\ last' = Call("traverse", NULL, stop, FALSE, "none",
                    <<hb_tree_traverse(tree, stop).ret, skiplist_traverse(list, stop).ret>>,
                    <<hb_tree_traverse(tree, stop).seen, skiplist_traverse(list, stop).seen>>,
                    <<>>, {})
    /\ UNCHANGED <<vtable, tree, list, itor, failed, ref>>

\* An iterator call that moves the cursor: R is what the function gives (the
\* new node field and the value returned), n its count argument if any.
ItorTake(op, n, R) ==
    /\ itor' = R.node
    /\ last' = Call(op, n, NULL, FALSE, "none", R.ret, NULL, <<>>, {})

HbItorLast ==
    /\ vtable = "hb_tree" /\ Idle
    /\ ItorTake("itor_last", NULL, hb_itor_last(tree))
    /\ UNCHANGED <<vtable, tree, list, failed, ref>>

HbItorPrev ==
    /\ vtable = "hb_tree" /\ Idle
    /\ ItorTake("itor_prev", NULL, hb_itor_prev(tree, itor))
    /\ UNCHANGED <<vtable, tree, list, failed, ref>>

HbItorNextn(n) ==
    /\ vtable = "hb_tree" /\ Idle
    /\ ItorTake("itor_nextn", n, hb_itor_nextn(tree, itor, n))
    /\ UNCHANGED <<vtable, tree, list, failed, ref>>

HbItorPrevn(n) ==
    /\ vtable = "hb_tree" /\ Idle
    /\ ItorTake("itor_prevn", n, hb_itor_prevn(tree, itor, n))
    /\ UNCHANGED <<vtable, tree, list, failed, ref>>

SkipItorLast ==
    /\ vtable = "skiplist" /\ Idle
    /\ ItorTake("itor_last", NULL, skiplist_itor_last(list))
    /\ UNCHANGED <<vtable, tree, list, failed, ref>>

SkipItorPrev(u) ==
    /\ vtable = "skiplist" /\ Idle
    /\ ItorTake("itor_prev", NULL, skiplist_itor_prev(list, itor, u))
    /\ UNCHANGED <<vtable, tree, list, failed, ref>>

SkipItorNextn(n, u) ==
    /\ vtable = "skiplist" /\ Idle
    /\ ItorTake("itor_nextn", n, skiplist_itor_nextn(list, itor, n, u))
    /\ UNCHANGED <<vtable, tree, list, failed, ref>>

SkipItorPrevn(n, u) ==
    /\ vtable = "skiplist" /\ Idle
    /\ ItorTake("itor_prevn", n, skiplist_itor_prevn(list, itor, n, u))
    /\ UNCHANGED <<vtable, tree, list, failed, ref>>

\* free(container): the last call made on the container.
HbTreeFree ==
    /\ vtable = "hb_tree" /\ Idle /\ itor = NULL
    /\ HbTake("free", NULL, NULL, FALSE, hb_tree_free(HbEnter(tree)) @@ [alloc |-> "none"])
    /\ ref' = RefClear(ref)
    /\ UNCHANGED <<vtable, list, itor>>

SkiplistFree ==
    /\ vtable = "skiplist" /\ Idle /\ itor = NULL
    /\ SkipTake("free", NULL, NULL, FALSE, skiplist_free(SkipEnter(list)) @@ [alloc |-> "none"])
    /\ ref' = RefClear(ref)
    /\ UNCHANGED <<vtable, tree, itor>>

\* skiplist_verify returns nothing; a failed assertion stops the program.
SkipVerify ==
    /\ vtable = "skiplist" /\ Idle
    /\ failed' = ~skiplist_verify(list)
    /\ last' = Call("verify", NULL, NULL, FALSE, "none", NULL, NULL, <<>>, {})
    /\ UNCHANGED <<vtable, tree, list, itor, ref>>

\* key() and data() of the iterator: out is the pointer returned.
HbItorKey ==
    /\ vtable = "hb_tree" /\ Idle
    /\ last' = Call("itor_key", NULL, NULL, FALSE, "none", NULL, hb_itor_key(tree, itor), <<>>, {})
    /\ UNCHANGED <<vtable, tree, list, itor, failed, ref>>

HbItorData ==
    /\ vtable = "hb_tree" /\ Idle
    /\ last' = Call("itor_data", NULL, NULL, FALSE, "none", NULL, hb_itor_data(tree, itor), <<>>, {})
    /\ UNCHANGED <<vtable, tree, list, itor, failed, ref>>

SkipItorKey ==
    /\ vtable = "skiplist" /\ Idle
    /\ last' = Call("itor_key", NULL, NULL, FALSE, "none", NULL, skiplist_itor_key(list, itor), <<>>, {})
    /\ UNCHANGED <<vtable, tree, list, itor, failed, ref>>

SkipItorData ==
    /\ vtable = "skiplist" /\ Idle
    /\ last' = Call("itor_data", NULL, NULL, FALSE, "none", NULL, skiplist_itor_data(list, itor), <<>>, {})
    /\ UNCHANGED <<vtable, tree, list, itor, failed, ref>>

Next ==
    \/ Return
    \/ \E k \in HbKeys, v \in Vals, overwrite \in BOOLEAN, ok \in BOOLEAN :
          HbInsert(k, v, overwrite, ok)
    \/ \E k \in HbKeys, v \in Vals, ok \in BOOLEAN : HbProbe(k, v, ok)
    \/ \E k \in HbKeys : HbRemove(k)
    \/ \E k \in HbKeys : HbSearch(k)
    \/ HbClear
    \/ HbCount
    \/ \E k \in SkipKeys, v \in Vals, overwrite \in BOOLEAN, r \in RandOutputs, ok \in BOOLEAN :
          SkipInsert(k, v, overwrite, r, ok)
    \/ \E k \in SkipKeys, v \in Vals, r \in RandOutputs, ok \in BOOLEAN : SkipProbe(k, v, r, ok)
    \/ \E k \in SkipKeys : SkipRemove(k)
    \/ \E k \in SkipKeys : SkipSearch(k)
    \/ SkipClear
    \/ SkipCount

Spec == Init /\ [][Next]_vars

\* The calls of Spec on fewer keys, together with an iterator of the
\* container: positioned by first, next and search, written through by
\* set_data, invalidated before the container is changed.
ItorHbKeys == 1..MaxItorHbKey
ItorSkipKeys == 1..MaxItorSkipKey

NextItor ==
    \/ Return
    \/ \E k \in ItorHbKeys, v \in Vals, overwrite \in BOOLEAN, ok \in BOOLEAN :
          HbInsert(k, v, overwrite, ok)
    \/ \E k \in ItorHbKeys, v \in Vals, ok \in BOOLEAN : HbProbe(k, v, ok)
    \/ \E k \in ItorHbKeys : HbRemove(k)
    \/ \E k \in ItorHbKeys : HbSearch(k)
    \/ HbClear
    \/ HbItorFirst
    \/ HbItorNext
    \/ \E k \in ItorHbKeys : HbItorSearch(k)
    \/ \E v \in Vals : HbItorSetData(v)
    \/ HbItorInvalidate
    \/ \E k \in ItorSkipKeys, v \in Vals, overwrite \in BOOLEAN, r \in RandOutputs, ok \in BOOLEAN :
          SkipInsert(k, v, overwrite, r, ok)
    \/ \E k \in ItorSkipKeys, v \in Vals, r \in RandOutputs, ok \in BOOLEAN : SkipProbe(k, v, r, ok)
    \/ \E k \in ItorSkipKeys : SkipRemove(k)
    \/ \E k \in ItorSkipKeys : SkipSearch(k)
    \/ SkipClear
    \/ SkipItorFirst
    \/ SkipItorNext
    \/ \E k \in ItorSkipKeys : SkipItorSearch(k)
    \/ \E v \in Vals : SkipItorSetData(v)
    \/ SkipItorInvalidate

SpecItor == Init /\ [][NextItor]_vars

\* The AVL engine alone on more keys, each key with one payload (its own
\* number) and no allocation failure: trees tall enough for every branch of
\* the retrace of hb_tree_remove.
InitDeep ==
    /\ vtable = "hb_tree"
    /\ tree = hb_tree_new
    /\ list = skiplist_new(MaxLinkArg)
    /\ itor = NULL
    /\ last = NoCall
    /\ failed = FALSE
    /\ ref = [k \in AllKeys |-> NULL]

NextDeep ==
    \/ Return
    \/ \E k \in 1..DeepKey : HbInsert(k, k, FALSE, TRUE)
    \/ \E k \in 1..DeepKey : HbProbe(k, k, TRUE)
    \/ \E k \in 1..DeepKey : HbRemove(k)

SpecDeep == InitDeep /\ [][NextDeep]_vars

\* The container calls on the keys of SpecItor, with traverse: the visitor
\* stops in any of its calls or (stop above the number of entries) in none.
Stops == 1..(Max(MaxItorHbKey, MaxItorSkipKey) + 1)

NextVisit ==
    \/ Return
    \/ \E k \in ItorHbKeys, v \in Vals, overwrite \in BOOLEAN :
          HbInsert(k, v, overwrite, TRUE)
    \/ \E k \in ItorHbKeys, v \in Vals : HbProbe(k, v, TRUE)
    \/ \E k \in ItorHbKeys : HbRemove(k)
    \/ HbClear
    \/ \E stop \in Stops : HbTraverse(stop)
    \/ \E k \in ItorSkipKeys, v \in Vals, overwrite \in BOOLEAN, r \in RandOutputs :
          SkipInsert(k, v, overwrite, r, TRUE)
    \/ \E k \in ItorSkipKeys, v \in Vals, r \in RandOutputs : SkipProbe(k, v, r, TRUE)
    \/ \E k \in ItorSkipKeys : SkipRemove(k)
    \/ SkipClear
    \/ \E stop \in Stops : SkipTraverse(stop)

SpecVisit == Init /\ [][NextVisit]_vars

\* The two engines side by side, from two new containers, with no
\* allocation failure; the skip list draws any level for each node.
InitBoth ==
    /\ vtable = "both"
    /\ tree = hb_tree_new
    /\ \E max_link \in 2..MaxLinkArg : list = skiplist_new(max_link)
    /\ itor = NULL
    /\ last = NoCall
    /\ failed = FALSE
    /\ ref = [k \in AllKeys |-> NULL]

NextBoth ==
    \/ Return
    \/ \E k \in ItorHbKeys, v \in Vals, overwrite \in BOOLEAN, r \in RandOutputs :
          BothInsert(k, v, overwrite, r)
    \/ \E k \in ItorHbKeys, v \in Vals, r \in RandOutputs : BothProbe(k, v, r)
    \/ \E k \in ItorHbKeys : BothRemove(k)
    \/ BothClear
    \/ \E k \in ItorHbKeys : BothSearch(k)
    \/ BothCount
    \/ \E stop \in Stops : BothTraverse(stop)

SpecBoth == InitBoth /\ [][NextBoth]_vars

\* The skip list alone with room for more levels: nodes of one, two and
\* MaxSkipLink - 1 links.
InitSkip ==
    /\ vtable = "skiplist"
    /\ tree = hb_tree_new
    /\ list = skiplist_new(MaxSkipLink)
    /\ itor = NULL
    /\ last = NoCall
    /\ failed = FALSE
    /\ ref = [k \in AllKeys |-> NULL]

NextSkip ==
    \/ Return
    \/ \E k \in SkipKeys, v \in Vals, overwrite \in BOOLEAN, r \in RandOutputs, ok \in BOOLEAN :
          SkipInsert(k, v, overwrite, r, ok)
    \/ \E k \in SkipKeys, v \in Vals, r \in RandOutputs, ok \in BOOLEAN : SkipProbe(k, v, r, ok)
    \/ \E k \in SkipKeys : SkipRemove(k)
    \/ SkipClear

SpecSkip == InitSkip /\ [][NextSkip]_vars

\* The iterator walking either container in both directions, by single
\* steps and by counts, between inserts, probes, removes and clears (each
\* key with one payload, no allocation failure); the AVL tree on the keys of
\* Spec, tall enough for node_next and node_prev to climb more than one
\* parent.
Steps == 0..Max(MaxItorHbKey, MaxItorSkipKey)

NextWalk ==
    \/ Return
    \/ \E k \in HbKeys : HbInsert(k, k, FALSE, TRUE)
    \/ \E k \in HbKeys : HbProbe(k, k, TRUE)
    \/ \E k \in HbKeys : HbRemove(k)
    \/ HbClear
    \/ HbItorFirst
    \/ HbItorLast
    \/ HbItorNext
    \/ HbItorPrev
    \/ \E n \in Steps : HbItorNextn(n)
    \/ \E n \in Steps : HbItorPrevn(n)
    \/ \E k \in HbKeys : HbItorSearch(k)
    \/ HbItorInvalidate
    \/ \E k \in ItorSkipKeys, r \in RandOutputs : SkipInsert(k, k, FALSE, r, TRUE)
    \/ \E k \in ItorSkipKeys, r \in RandOutputs : SkipProbe(k, k, r, TRUE)
    \/ \E k \in ItorSkipKeys : SkipRemove(k)
    \/ SkipClear
    \/ SkipItorFirst
    \/ SkipItorLast
    \/ \E u \in SkipPointers(list) : SkipItorPrev(u)
    \/ \E n \in Steps, u \in SkipPointers(list) : SkipItorNextn(n, u)
    \/ \E n \in Steps, u \in SkipPointers(list) : SkipItorPrevn(n, u)
    \/ \E k \in ItorSkipKeys : SkipItorSearch(k)
    \/ SkipItorInvalidate

SpecWalk == Init /\ [][NextWalk]_vars

\* The life of a container up to its free: no call follows free.
NextFree ==
    \/ (last.op # "free" /\ Return)
    \/ \E k \in ItorHbKeys, v \in Vals : HbInsert(k, v, FALSE, TRUE)
    \/ \E k \in ItorHbKeys : HbRemove(k)
    \/ HbTreeFree
    \/ \E k \in ItorSkipKeys, v \in Vals, r \in RandOutputs : SkipInsert(k, v, FALSE, r, TRUE)
    \/ \E k \in ItorSkipKeys : SkipRemove(k)
    \/ SkiplistFree

SpecFree == Init /\ [][NextFree]_vars

\* The skip list alone, built by skiplist_new with every kind of max_link it
\* accepts: 1, the small values, and one above MAX_LINK that it clamps.
InitAnyLink ==
    /\ vtable = "skiplist"
    /\ tree = hb_tree_new
    /\ \E max_link \in (1..MaxLinkArg) \cup {MAX_LINK + 1} : list = skiplist_new(max_link)
    /\ itor = NULL
    /\ last = NoCall
    /\ failed = FALSE
    /\ ref = [k \in AllKeys |-> NULL]

SpecAnyLink == InitAnyLink /\ [][NextSkip]_vars

\* The skip list alone, with its consistency check called between the
\* calls that change it.
NextVerify ==
    \/ NextSkip
    \/ SkipVerify

SpecVerify == InitSkip /\ [][NextVerify]_vars

\* The iterator placed, stepped off either end, sent to an absent key or
\* invalidated, and then read and written through key(), data() and
\* set_data(). The skip list takes no remove here: its nodes' prev links
\* stay exact, so a cursor is NULL, the head or a stored node.
NextRead ==
    \/ Return
    \/ \E k \in ItorHbKeys, v \in Vals : HbInsert(k, v, FALSE, TRUE)
    \/ \E k \in ItorHbKeys : HbRemove(k)
    \/ HbClear
    \/ HbItorFirst
    \/ HbItorLast
    \/ HbItorNext
    \/ HbItorPrev
    \/ \E k \in ItorHbKeys : HbItorSearch(k)
    \/ HbItorInvalidate
    \/ HbItorKey
    \/ HbItorData
    \/ \E v \in Vals : HbItorSetData(v)
    \/ \E k \in ItorSkipKeys, v \in Vals, r \in RandOutputs : SkipInsert(k, v, FALSE, r, TRUE)
    \/ SkipClear
    \/ SkipItorFirst
    \/ SkipItorLast
    \/ SkipItorNext
    \/ SkipItorPrev(NULL)
    \/ \E k \in ItorSkipKeys : SkipItorSearch(k)
    \/ SkipItorInvalidate
    \/ SkipItorKey
    \/ SkipItorData
    \/ \E v \in Vals : SkipItorSetData(v)

SpecRead == Init /\ [][NextRead]_vars

\* ================================================================ claims

\* What is stored, read off the links; the walks give up (Lost) after more
\* steps than there are nodes, so they are defined on any link structure.
Lost == <<DANGLING>>

RECURSIVE HbWalk(_, _, _)
HbWalk(nd, node, fuel) ==
    IF node = NULL THEN <<>>
    ELSE IF fuel = 0 \/ node \notin DOMAIN nd THEN Lost
    ELSE HbWalk(nd, nd[node].llink, fuel - 1) \o <<node>> \o HbWalk(nd, nd[node].rlink, fuel - 1)

HbInorder(t) == HbWalk(t.nd, t.root, Cardinality(DOMAIN t.nd) + 1)

RECURSIVE SkipWalk(_, _, _, _)
SkipWalk(nd, x, k, fuel) ==
    IF x = NULL THEN <<>>
    ELSE IF fuel = 0 \/ x \notin DOMAIN nd \/ nd[x].link_count <= k THEN Lost
    ELSE <<x>> \o SkipWalk(nd, nd[x].link[k], k, fuel - 1)

\* The chain of level k, without the head.
SkipChain(l, k) == SkipWalk(l.nd, l.nd[HEAD].link[k], k, Cardinality(DOMAIN l.nd))

Range(f) == {f[i] : i \in DOMAIN f}

Ascending(nd, seq) ==
    /\ Range(seq) \subseteq DOMAIN nd
    /\ \A i \in 1..(Len(seq) - 1) : nd[seq[i]].key.ord < nd[seq[i + 1]].key.ord

\* The side of node n: the subtree hanging from child c.
HbSide(t, c) == Range(HbWalk(t.nd, c, Cardinality(DOMAIN t.nd) + 1))

HbWellFormed(t) ==
    /\ DANGLING \notin Range(HbInorder(t))
    /\ Range(HbInorder(t)) = DOMAIN t.nd
    /\ Len(HbInorder(t)) = Cardinality(DOMAIN t.nd)

SkipWellFormed(l) ==
    /\ DANGLING \notin Range(SkipChain(l, 0))
    /\ Range(SkipChain(l, 0)) = (DOMAIN l.nd) \ {HEAD}
    /\ Len(SkipChain(l, 0)) = Cardinality(DOMAIN l.nd) - 1

IsHb == vtable = "hb_tree"
IsSkip == vtable = "skiplist"

\* The balance of every node of t against the heights node_height gives.
HbBalanced(t) ==
    /\ HbWellFormed(t)
    /\ \A n \in DOMAIN t.nd :
          LET l == IF t.nd[n].llink # NULL THEN node_height(t.nd, t.nd[n].llink) + 1 ELSE 0
              r == IF t.nd[n].rlink # NULL THEN node_height(t.nd, t.nd[n].rlink) + 1 ELSE 0
          IN t.nd[n].bal = r - l /\ t.nd[n].bal \in {-1, 0, 1}

\* C1: in the AVL tree every node's bal is the height of its right subtree
\* minus the height of its left subtree, and is -1, 0 or +1, after every
\* insert, probe and remove.
C1_BalIsHeightDifference == IsHb => HbBalanced(tree)

\* A remove that rotated twice at one node and went on retracing above it,
\* in a tree that still holds six nodes.
C1_Witness ==
    /\ IsHb /\ last.op = "remove" /\ last.ret = 1
    /\ {"rot_left", "rot_right", "higher"} \subseteq last.path
    /\ tree.count >= 6

\* The order of the keys of t along the walk and below every node.
HbOrdered(t) ==
    /\ HbWellFormed(t)
    /\ Ascending(t.nd, HbInorder(t))
    /\ \A i, j \in DOMAIN t.nd : i # j => t.nd[i].key.ord # t.nd[j].key.ord
    /\ \A n \in DOMAIN t.nd :
          /\ \A m \in HbSide(t, t.nd[n].llink) : t.nd[m].key.ord < t.nd[n].key.ord
          /\ \A m \in HbSide(t, t.nd[n].rlink) : t.nd[m].key.ord > t.nd[n].key.ord

SkipOrdered(l) ==
    /\ SkipWellFormed(l)
    /\ Ascending(l.nd, SkipChain(l, 0))
    /\ \A i, j \in (DOMAIN l.nd) \ {HEAD} : i # j => l.nd[i].key.ord # l.nd[j].key.ord

\* C2: the stored keys read in order (AVL in-order walk, skip list level-0
\* chain) are strictly ascending, no two stored entries have equal keys, and
\* every AVL node's key lies above all keys of its left subtree and below
\* all keys of its right subtree.
C2_KeysStrictlyAscending ==
    /\ IsHb => HbOrdered(tree)
    /\ IsSkip => SkipOrdered(list)

\* A remove from a full container that left two or more entries behind.
C2_Witness ==
    /\ last.op = "remove" /\ last.ret = 1
    /\ \/ IsHb /\ tree.count = MaxHbKey - 1 /\ "rot_left" \in last.path
       \/ IsSkip /\ list.count = MaxSkipKey - 1 /\ "break" \in last.path

\* search(k) on the container in use.
Search(k) ==
    IF IsHb THEN hb_tree_search(tree, KeyObj(k, NULL))
    ELSE skiplist_search(list, KeyObj(k, NULL))

\* C3: search(k) gives what the reference map gives for every key: the datum
\* last stored for k by insert, probe or the iterator's set_data, NULL once k
\* was removed or the container cleared.
C3_SearchIsReferenceMap ==
    /\ \A k \in AllKeys : Search(k) = ref[k]
    /\ last.op = "search" => last.ret = ref[last.k]

\* A search that found a datum written through the iterator over the datum
\* the entry was inserted with, in a container of two or more entries.
C3_Witness ==
    /\ last.op = "search" /\ last.ret # NULL
    /\ IF IsHb
       THEN tree.count >= 2 /\ \E n \in DOMAIN tree.nd :
               /\ tree.nd[n].key.ord = last.k /\ tree.nd[n].key.obj # last.ret
               /\ tree.nd[n].datum = last.ret
       ELSE list.count >= 2 /\ \E n \in (DOMAIN list.nd) \ {HEAD} :
               /\ list.nd[n].key.ord = last.k /\ list.nd[n].key.obj # last.ret
               /\ list.nd[n].datum = last.ret

\* The keys the reference map holds.
Stored == {k \in AllKeys : ref[k] # NULL}

\* C4: count() is the number of entries stored, whatever calls were made.
C4_CountIsEntriesStored ==
    /\ IsHb => /\ HbWellFormed(tree)
               /\ hb_tree_count(tree) = Len(HbInorder(tree))
               /\ hb_tree_count(tree) = Cardinality(Stored)
    /\ IsSkip => /\ SkipWellFormed(list)
                 /\ skiplist_count(list) = Len(SkipChain(list, 0))
                 /\ skiplist_count(list) = Cardinality(Stored)
    /\ last.op = "count" => last.ret = Cardinality(Stored)

\* count() answered 2 after more than two keys had been in the container.
C4_Witness == last.op = "count" /\ last.ret = 2

\* The entries stored, read off the nodes: <<key object, datum>>.
HbEntries(t) == {<<t.nd[n].key, t.nd[n].datum>> : n \in DOMAIN t.nd}

SkipEntries(l) == {<<l.nd[n].key, l.nd[n].datum>> : n \in (DOMAIN l.nd) \ {HEAD}}

Entries == IF IsHb THEN HbEntries(tree) ELSE SkipEntries(list)

Has(k) == \E e \in Entries : e[1].ord = k

EntryOf(k) == CHOOSE e \in Entries : e[1].ord = k

Count == IF IsHb THEN tree.count ELSE list.count

SearchIn(t, l, k) ==
    IF IsHb THEN hb_tree_search(t, KeyObj(k, NULL)) ELSE skiplist_search(l, KeyObj(k, NULL))

\* The step left every field of every node and of the container as it was.
Untouched == tree' = tree /\ list' = list

\* Parent links agree with child links.
HbParents(t) ==
    /\ t.root = NULL <=> DOMAIN t.nd = {}
    /\ t.root # NULL => t.root \in DOMAIN t.nd /\ t.nd[t.root].parent = NULL
    /\ \A n \in DOMAIN t.nd :
          /\ t.nd[n].llink # NULL =>
                t.nd[n].llink \in DOMAIN t.nd /\ t.nd[t.nd[n].llink].parent = n
          /\ t.nd[n].rlink # NULL =>
                t.nd[n].rlink \in DOMAIN t.nd /\ t.nd[t.nd[n].rlink].parent = n

\* Every level's chain is the level-0 chain cut down to the nodes that have
\* that level.
SkipLevels(l) ==
    \A k \in 0..(l.max_link - 1) :
       LET HasLevel(n) == l.nd[n].link_count > k
       IN SkipChain(l, k) = SelectSeq(SkipChain(l, 0), HasLevel)

SkipMaxLinkCount(l) ==
    LET lc == {l.nd[n].link_count : n \in (DOMAIN l.nd) \ {HEAD}}
    IN IF lc = {} THEN 0 ELSE CHOOSE m \in lc : \A j \in lc : j <= m

SkipTopIsMax(l) == l.top_link = SkipMaxLinkCount(l)

SkipPrevLinks(l) ==
    LET c == SkipChain(l, 0)
    IN \A i \in 1..Len(c) : l.nd[c[i]].prev = IF i = 1 THEN HEAD ELSE c[i - 1]

\* What a step that is the call of C5 has to satisfy.
C5_Step ==
    (last'.op = "insert" /\ last'.overwrite /\ Has(last'.k)) =>
        /\ last'.ret = 0
        /\ last'.del = <<EntryOf(last'.k)>>
        /\ IsHb => \E n \in DOMAIN tree.nd :
              /\ tree.nd[n].key.ord = last'.k
              /\ tree' = [tree EXCEPT !.nd[n].key = KeyObj(last'.k, last'.v),
                                      !.nd[n].datum = last'.v]
        /\ IsSkip => \E n \in (DOMAIN list.nd) \ {HEAD} :
              /\ list.nd[n].key.ord = last'.k
              /\ list' = [list EXCEPT !.nd[n].key = KeyObj(last'.k, last'.v),
                                      !.nd[n].datum = last'.v]
        /\ SearchIn(tree', list', last'.k) = last'.v

\* C5: insert(k, v2, overwrite = true) on a stored key returns 0, calls the
\* cleanup callback once, with the displaced key and datum, puts the new key
\* and datum in the node that held the entry and changes nothing else (count,
\* links, bal, top_link); search(k) then gives v2.
C5_OverwriteReplacesInPlace == [][C5_Step]_vars

\* An overwrite that displaced a datum other than the one it stored, in a
\* container of two or more entries.
C5_Witness ==
    /\ last.op = "insert" /\ last.overwrite /\ last.ret = 0
    /\ Len(last.del) = 1 /\ last.del[1][2] # last.v
    /\ Count >= 2

\* What a step that is the call of C6 has to satisfy.
C6_Step ==
    (last'.op \in {"insert", "probe"}) =>
        /\ ~Has(last'.k) => last'.alloc \in {"done", "failed"}
        /\ last'.ret = -1 <=> last'.alloc = "failed"
        /\ last'.alloc = "failed" =>
              /\ ~Has(last'.k)
              /\ last'.del = <<>>
              /\ Untouched
              /\ Entries' = Entries /\ Count' = Count

\* C6: an insert or probe of an absent key whose allocation fails returns
\* -1, calls no cleanup, and leaves entries, links, bal, top_link and count
\* exactly as they were; -1 is returned in no other case.
C6_AllocationFailureChangesNothing == [][C6_Step]_vars

\* A probe that failed to allocate on a container of two or more entries.
C6_Witness ==
    /\ last.op = "probe" /\ last.alloc = "failed" /\ last.ret = -1
    /\ Count >= 2

\* What a step that is the call of C7 has to satisfy.
C7_Step ==
    (last'.op = "insert" /\ ~last'.overwrite /\ Has(last'.k)) =>
        /\ last'.ret = 1
        /\ last'.del = <<>>
        /\ Untouched
        /\ Entries' = Entries /\ Count' = Count

\* C7: insert(k, v, overwrite = false) on a stored key returns 1, calls no
\* cleanup and leaves the stored key, the stored datum, count and the whole
\* structure as they were.
C7_DuplicateRejectedUnchanged == [][C7_Step]_vars

\* A rejected insert that offered a datum other than the stored one.
C7_Witness ==
    /\ last.op = "insert" /\ ~last.overwrite /\ last.ret = 1
    /\ Has(last.k) /\ EntryOf(last.k)[2] # last.v

\* What a step that is the call of C8 has to satisfy.
C8_Step ==
    (last'.op = "probe") =>
        /\ Has(last'.k) =>
              /\ last'.ret = 0
              /\ last'.out = EntryOf(last'.k)[2]
              /\ last'.del = <<>>
              /\ Untouched
        /\ (~Has(last'.k) /\ last'.alloc = "done") =>
              /\ last'.ret = 1
              /\ last'.del = <<>>
              /\ Entries' = Entries \cup {<<KeyObj(last'.k, last'.v), last'.v>>}
              /\ Count' = Count + 1
              /\ IsHb => HbBalanced(tree') /\ HbOrdered(tree') /\ HbParents(tree')
              /\ IsSkip => /\ SkipOrdered(list') /\ SkipLevels(list')
                           /\ SkipTopIsMax(list) => SkipTopIsMax(list')
                           /\ SkipPrevLinks(list) => SkipPrevLinks(list')

\* C8: probe(k, &d) on a stored key returns 0, writes the stored datum to d
\* and changes nothing (no cleanup); on an absent key with a successful
\* allocation it returns 1, stores (k, d), raises count by one and keeps the
\* structural invariants.
C8_ProbeFindsOrStores == [][C8_Step]_vars

\* A probe that found an entry whose datum is not the one it offered.
C8_Witness ==
    /\ last.op = "probe" /\ last.ret = 0 /\ last.out # last.v
    /\ Count >= 2

\* What a step that is the call of C9 has to satisfy.
C9_Step ==
    (last'.op = "remove" /\ Has(last'.k)) =>
        /\ last'.del = <<EntryOf(last'.k)>>
        /\ Entries' = Entries \ {EntryOf(last'.k)}
        /\ \A j \in AllKeys \ {last'.k} :
              SearchIn(tree', list', j) = SearchIn(tree, list, j)

\* C9: remove(k) of a stored key calls the cleanup callback once, with the
\* key and datum stored for k, and every other entry keeps its key with its
\* datum; so too when the AVL node has two children and its payload is
\* swapped with its successor's.
C9_RemoveCleansItsOwnEntry == [][C9_Step]_vars

\* A remove of an AVL node with two children: the payloads were swapped and
\* the entry cleaned is the one of the key asked for.
C9_Witness ==
    /\ IsHb /\ last.op = "remove" /\ "swap" \in last.path
    /\ Len(last.del) = 1 /\ last.del[1][1].ord = last.k
    /\ tree.count >= 3

\* What a step that is the call of C10 has to satisfy.
C10_Step ==
    (last'.op = "remove") =>
        /\ last'.ret = 1 <=> Has(last'.k)
        /\ ~Has(last'.k) =>
              /\ last'.ret = 0
              /\ last'.del = <<>>
              /\ Untouched
              /\ Entries' = Entries /\ Count' = Count

\* C10: remove(k) returns true exactly when k was stored before the call;
\* for an absent k it returns false, calls no cleanup and leaves count,
\* entries and structure (top_link too) as they were.
C10_RemoveReturnsWasStored == [][C10_Step]_vars

\* A remove of an absent key from a skip list whose top_link is above 0.
C10_Witness ==
    /\ IsSkip /\ last.op = "remove" /\ last.ret = 0
    /\ list.count >= 2 /\ list.top_link >= 1

\* What a step that is the call of C11 has to satisfy.
C11_Step ==
    (last'.op = "clear") =>
        /\ Len(last'.del) = Cardinality(Entries)
        /\ Range(last'.del) = Entries
        /\ last'.ret = Cardinality(Entries) /\ last'.ret = Count
        /\ Count' = 0 /\ Entries' = {}
        /\ ~failed'
        /\ IsHb => tree' = hb_tree_new
        /\ IsSkip => list' = skiplist_new(list.max_link)

\* C11: clear() on a container of n entries calls the cleanup callback once
\* for each of the n entries, returns n and leaves count 0 and the structure
\* of a newly constructed container (AVL: root NULL, no node; skip list:
\* top_link 0, every head link NULL, no node), so that every later call
\* starts from the state a new container starts from.
C11_ClearLeavesNewContainer == [][C11_Step]_vars

\* A clear of three entries; on the skip list top_link was above 0 before.
C11_Witness ==
    /\ last.op = "clear" /\ last.ret = 3 /\ Len(last.del) = 3
    /\ Count = 0

\* The entries stored, in ascending order of their keys.
InOrder ==
    [i \in 1..Cardinality(Entries) |->
       CHOOSE e \in Entries : Cardinality({f \in Entries : f[1].ord < e[1].ord}) = i - 1]

\* What a step that is the call of C12 has to satisfy.
C12_Step ==
    (last'.op = "traverse") =>
        /\ Untouched
        /\ last'.out = SubSeq(InOrder, 1, Min(last'.v, Cardinality(Entries)))
        /\ last'.ret = Len(last'.out)
        /\ \A i \in 1..(Len(last'.out) - 1) : last'.out[i][1].ord < last'.out[i + 1][1].ord
        /\ last'.v > Count => last'.ret = Count /\ Range(last'.out) = Entries
        /\ Count = 0 => last'.ret = 0 /\ last'.out = <<>>

\* C12: traverse(visit) calls the visitor on the stored entries in strictly
\* ascending key order, each at most once, makes no call after the first one
\* in which the visitor returns false and returns the number of calls made,
\* that one included; a visitor that never stops sees every entry and
\* count() is returned; on an empty container no call is made and 0 returned.
C12_TraverseAscendingUntilStop == [][C12_Step]_vars

\* A traverse of three entries stopped by the visitor in its second call.
C12_Witness ==
    /\ last.op = "traverse" /\ last.v = 2 /\ last.ret = 2
    /\ Count = 3

\* C13: driven by the same calls with the same arguments and no allocation
\* failure, the AVL tree and the skip list return the same value from every
\* insert, probe, search, remove, count, traverse and clear, give the same
\* datum back from probe and show the same entries in the same order to the
\* visitor of traverse, whatever levels the skip list draws.
C13_EnginesAgree ==
    (vtable = "both" /\ last.op # "idle") =>
        /\ last.ret[1] = last.ret[2]
        /\ last.out[1] = last.out[2]
        /\ ~failed
        /\ HbEntries(tree) = SkipEntries(list)

\* A traverse of three entries stopped in the second call, on a skip list
\* with a node of two links or more.
C13_Witness ==
    /\ vtable = "both" /\ last.op = "traverse" /\ last.v = 2 /\ last.ret = <<2, 2>>
    /\ tree.count = 3 /\ list.count = 3 /\ list.top_link >= 2

\* The nodes on the chain of level k.
SkipOnLevel(l, k) == Range(SkipChain(l, k))

\* C14: in the skip list, after any insert, probe, remove and clear, a node
\* of L links is on the chain of every level below L and on no chain of
\* level L or above, and the chain of each level is the level-0 chain (the
\* stored nodes in ascending key order) cut down to the nodes with more
\* links than the level.
C14_LevelChainsAreSubsequences ==
    IsSkip =>
        /\ SkipOrdered(list)
        /\ SkipLevels(list)
        /\ \A n \in (DOMAIN list.nd) \ {HEAD} : \A k \in 0..(list.max_link - 1) :
              n \in SkipOnLevel(list, k) <=> k < list.nd[n].link_count

\* A remove of a node of fewer links than the list has levels (the unlink
\* loop broke off), leaving a node of three links and a node of two.
C14_Witness ==
    /\ IsSkip /\ last.op = "remove" /\ last.ret = 1 /\ "break" \in last.path
    /\ list.count = 2
    /\ Len(SkipChain(list, 2)) = 1 /\ Len(SkipChain(list, 1)) = 2

\* C15: in the skip list, after every insert, probe, remove and clear,
\* top_link is the largest link count among the stored nodes, and 0 when the
\* list is empty.
C15_TopLinkIsMaxLinkCount == IsSkip => SkipTopIsMax(list)

\* A remove left entries behind and top_link one below the largest link
\* count among them.
C15_Witness ==
    /\ IsSkip /\ last.op = "remove" /\ last.ret = 1
    /\ list.count >= 1
    /\ list.top_link = SkipMaxLinkCount(list) - 1

\* The cursor is on a stored entry; the key it is on; the place of that key
\* among the stored keys, counted from 1 at the smallest.
CursorValid ==
    IF IsHb THEN itor \in DOMAIN tree.nd ELSE itor \in (DOMAIN list.nd) \ {HEAD}

CursorKey == IF IsHb THEN hb_itor_key(tree, itor).ord ELSE skiplist_itor_key(list, itor).ord

Pos == Cardinality({e \in Entries : e[1].ord <= CursorKey})

\* What a step that is the call of C16 has to satisfy.
C16_Step ==
    /\ (last'.op = "itor_nextn" /\ CursorValid /\ Pos + last'.k <= Count) =>
          last'.ret = 1 /\ CursorValid' /\ Pos' = Pos + last'.k
    /\ (last'.op = "itor_prevn" /\ CursorValid /\ Pos - last'.k >= 1) =>
          last'.ret = 1 /\ CursorValid' /\ Pos' = Pos - last'.k

\* C16: on either engine, from a cursor on the i-th smallest entry, nextn(n)
\* with i + n <= count returns true and leaves the cursor on the (i + n)-th
\* smallest entry, and prevn(n) with i - n >= 1 returns true and leaves it
\* on the (i - n)-th smallest entry.
C16_NextnPrevnMoveByCount == [][C16_Step]_vars

\* nextn(2) on the AVL tree returned true with the cursor on the smallest of
\* three entries: it went two entries backward from the largest.
C16_Witness ==
    /\ IsHb /\ last.op = "itor_nextn" /\ last.k = 2 /\ last.ret = 1
    /\ tree.count = 3 /\ itor = node_min(tree.nd, tree.root)

\* The nodes met from x by following prev, up to the head.
RECURSIVE SkipBack(_, _, _)
SkipBack(nd, x, fuel) ==
    IF x = HEAD \/ x = NULL THEN <<>>
    ELSE IF fuel = 0 \/ x \notin DOMAIN nd THEN Lost
    ELSE <<x>> \o SkipBack(nd, nd[x].prev, fuel - 1)

Reverse(seq) == [i \in 1..Len(seq) |-> seq[Len(seq) + 1 - i]]

\* C17: in the skip list, after any insert, probe and remove, the prev link
\* of every stored node is its level-0 predecessor (the head for the first
\* node), never a removed node, so that the prev links followed from the last
\* entry pass every stored entry in descending key order down to the
\* smallest.
C17_PrevIsPredecessor ==
    IsSkip =>
        /\ SkipPrevLinks(list)
        /\ \A n \in (DOMAIN list.nd) \ {HEAD} : list.nd[n].prev # DANGLING
        /\ LET c == SkipChain(list, 0) IN
           Len(c) > 0 => SkipBack(list.nd, c[Len(c)], Len(c)) = Reverse(c)

\* A remove left the node after the removed one with a prev link to the
\* freed node.
C17_Witness ==
    /\ IsSkip /\ last.op = "remove" /\ last.ret = 1
    /\ \E n \in (DOMAIN list.nd) \ {HEAD} :
          list.nd[n].prev = DANGLING /\ list.nd[n].key.ord > last.k

\* The largest key stored (0 when nothing is).
MaxKey ==
    IF Entries = {} THEN 0
    ELSE (CHOOSE e \in Entries : \A f \in Entries : f[1].ord <= e[1].ord)[1].ord

\* What a step that is the call of C18 has to satisfy.
C18_Step ==
    (IsSkip /\ (last'.op = "itor_last" \/ (last'.op = "itor_prev" /\ itor = NULL))) =>
        /\ Count >= 1 => last'.ret = 1 /\ CursorValid' /\ CursorKey' = MaxKey
        /\ last'.ret = 0 => Count = 0

\* C18: on a skip list that holds an entry, in whatever state insert, probe,
\* remove and clear left it, skiplist_itor_last (and skiplist_itor_prev on an
\* unpositioned iterator) returns true with the cursor on the largest key;
\* it returns false only on an empty list.
C18_LastFindsLargest == [][C18_Step]_vars

\* skiplist_itor_last returned false on a list that holds an entry.
C18_Witness ==
    /\ IsSkip /\ last.op = "itor_last" /\ last.ret = 0 /\ itor = NULL
    /\ list.count >= 1 /\ list.top_link = 0

\* The smallest key stored (0 when nothing is).
MinKey ==
    IF Entries = {} THEN 0
    ELSE (CHOOSE e \in Entries : \A f \in Entries : e[1].ord <= f[1].ord)[1].ord

\* The nodes the cursor passes from it by repeated next (prev) until it is
\* invalid.
RECURSIVE HbNextWalk(_, _, _)
HbNextWalk(t, it, fuel) ==
    IF it = NULL THEN <<>>
    ELSE IF fuel = 0 THEN Lost
    ELSE <<it>> \o HbNextWalk(t, hb_itor_next(t, it).node, fuel - 1)

RECURSIVE HbPrevWalk(_, _, _)
HbPrevWalk(t, it, fuel) ==
    IF it = NULL THEN <<>>
    ELSE IF fuel = 0 THEN Lost
    ELSE <<it>> \o HbPrevWalk(t, hb_itor_prev(t, it).node, fuel - 1)

\* What a step that is a call of C19 has to satisfy.
C19_Step ==
    IsHb =>
        /\ last'.op = "itor_first" =>
              IF Count = 0 THEN last'.ret = 0 /\ itor' = NULL
              ELSE last'.ret = 1 /\ CursorValid' /\ CursorKey' = MinKey
        /\ last'.op = "itor_last" =>
              IF Count = 0 THEN last'.ret = 0 /\ itor' = NULL
              ELSE last'.ret = 1 /\ CursorValid' /\ CursorKey' = MaxKey
        /\ (last'.op = "itor_next" /\ CursorValid) =>
              IF Pos < Count THEN last'.ret = 1 /\ CursorValid' /\ Pos' = Pos + 1
              ELSE last'.ret = 0 /\ itor' = NULL
        /\ (last'.op = "itor_prev" /\ CursorValid) =>
              IF Pos > 1 THEN last'.ret = 1 /\ CursorValid' /\ Pos' = Pos - 1
              ELSE last'.ret = 0 /\ itor' = NULL
        /\ HbNextWalk(tree', hb_itor_first(tree').node, tree'.count + 1) = HbInorder(tree')
        /\ HbPrevWalk(tree', hb_itor_last(tree').node, tree'.count + 1) = Reverse(HbInorder(tree'))
        /\ Len(HbInorder(tree')) = tree'.count /\ Ascending(tree'.nd, HbInorder(tree'))

\* C19: on every AVL tree that insert, probe and remove build, first puts the
\* cursor on the smallest key and last on the largest; next moves a valid
\* cursor to the next larger key and prev to the next smaller one, and the
\* cursor becomes invalid exactly when there is none; first and repeated next
\* pass all count() entries in ascending order, last and repeated prev pass
\* them in descending order.
C19_AvlCursorWalksInOrder == [][C19_Step]_vars

\* prev arrived at the root of a tree of five entries from the root's
\* successor n, a node without left child that is not a child of the root:
\* node_prev climbed more than one parent.
C19_Witness ==
    /\ IsHb /\ last.op = "itor_prev" /\ last.ret = 1 /\ tree.count = 5
    /\ itor = tree.root
    /\ \E n \in DOMAIN tree.nd :
          /\ node_prev(tree.nd, n) = itor /\ tree.nd[n].llink = NULL
          /\ tree.nd[n].parent # itor

\* What a step that is the call of C20 has to satisfy.
C20_Step ==
    (last'.op = "free") =>
        /\ Len(last'.del) = Cardinality(Entries)
        /\ Range(last'.del) = Entries
        /\ last'.ret = Cardinality(Entries)
        /\ Entries' = {}
        /\ last'.out = 0

\* C20: free(container) on either engine calls the cleanup callback once for
\* each stored entry, releases every node and then the container object (and
\* the skip list's head), and returns the number of entries released; so too
\* for a container that holds no entry: nothing allocated for the container
\* is still allocated afterwards.
C20_FreeReleasesEverything == [][C20_Step]_vars

\* hb_tree_free of a tree without entries returned 0 and the hb_tree object
\* is still allocated.
C20_Witness ==
    /\ IsHb /\ last.op = "free" /\ last.ret = 0 /\ last.del = <<>>
    /\ last.out = 1

\* C21: on the AVL engine no internal assertion ever fails, whatever the
\* sequence of insert, probe, remove and clear: a node of hb_tree_remove
\* whose balance factor reaches +2 (-2) has a right (left) child, that child
\* has its outer child when a single rotation is chosen, rot_left and
\* rot_right are called on nodes that have the child they lift, count is 0
\* when a node is linked as the root and count is 0 at the end of clear.
C21_NoAvlAssertionFails == IsHb => ~failed

\* A remove has returned after its retrace took a node to balance factor
\* +-2 and passed the assertions before a double rotation.
C21_Witness ==
    /\ IsHb /\ ~failed
    /\ last.op = "remove" /\ last.ret = 1
    /\ {"rot_left", "rot_right"} \subseteq last.path

\* C22: on a skip list built with any max_link >= 1 that skiplist_new
\* accepts, no assertion of skiplist_insert, skiplist_probe, node_insert or
\* skiplist_remove ever fails; in particular the link count drawn for every
\* node stored is at least 1 and less than max_link.
C22_NoSkipAssertionFails ==
    IsSkip => /\ ~failed
              /\ \A n \in (DOMAIN list.nd) \ {HEAD} :
                    1 <= list.nd[n].link_count /\ list.nd[n].link_count < list.max_link

\* An insert into a list of max_link 1 has stopped on a failed assertion.
C22_Witness ==
    /\ IsSkip /\ list.max_link = 1
    /\ failed /\ last.op \in {"insert", "probe"}

\* C23: skiplist_verify passes, none of its assertions failing, in every
\* state that inserts, probes, removes and clears lead to: top_link <=
\* max_link, every stored node has 1 <= link_count <= top_link, and each
\* non-null forward link at level k leads to a node of link_count >= k.
C23_VerifyPasses ==
    IsSkip => /\ last.op = "verify" => ~failed
              /\ ~failed => skiplist_verify(list)

\* skiplist_verify was called on a list that holds entries and stopped on
\* a failed assertion.
C23_Witness ==
    /\ IsSkip /\ last.op = "verify" /\ failed
    /\ list.count > 0

\* C24: on a skip list of max_link >= 2 every stored node has between 1 and
\* max_link - 1 links, and top_link is at least the largest link count
\* stored less one and at most max_link - 1; so each level of the head that
\* holds a node is at or below top_link, where the descents start, and no
\* head link is used at an index of max_link or more (the assertions
\* link_count > k on the way hold).
C24_TopLinkCoversLevels ==
    (IsSkip /\ list.max_link >= 2) =>
        /\ \A n \in (DOMAIN list.nd) \ {HEAD} :
              1 <= list.nd[n].link_count /\ list.nd[n].link_count <= list.max_link - 1
        /\ SkipMaxLinkCount(list) - 1 <= list.top_link
        /\ list.top_link <= list.max_link - 1
        /\ \A k \in 0..(list.max_link - 1) : list.nd[HEAD].link[k] # NULL => k <= list.top_link
        /\ ~failed

\* A remove has left top_link one below the largest link count stored,
\* which is max_link - 1: the top level descended from is the last one
\* that holds a node.
C24_Witness ==
    /\ IsSkip /\ list.max_link >= 3
    /\ last.op = "remove" /\ last.ret = 1
    /\ SkipMaxLinkCount(list) = list.max_link - 1
    /\ list.top_link = list.max_link - 2

\* C25: on the AVL engine, after any sequence of insert, probe and remove,
\* with their single and double rotations and splices, parent links agree
\* with child links: the root's parent is NULL, the root is the only node
\* with a NULL parent, each non-null child c of a node n has c.parent = n,
\* and every link is NULL or a live node, never a released one.
C25_ParentLinksConsistent ==
    IsHb =>
        /\ HbParents(tree)
        /\ \A n \in DOMAIN tree.nd :
              /\ tree.nd[n].parent = NULL => n = tree.root
              /\ {tree.nd[n].parent, tree.nd[n].llink, tree.nd[n].rlink}
                    \subseteq (DOMAIN tree.nd) \cup {NULL}

\* A remove of a node with two children has swapped it with its successor,
\* spliced it out and retraced through a double rotation and further up.
C25_Witness ==
    /\ IsHb /\ last.op = "remove" /\ last.ret = 1
    /\ {"swap", "rot_left", "rot_right", "higher"} \subseteq last.path
    /\ tree.count >= 5

\* C26: on either engine, when the iterator reports itself invalid (valid()
\* is false: stepped before the first or past the last entry, a failed
\* seek, an empty container), key() and data() return NULL, and set_data()
\* returns false and modifies no node, the skip list's head included.
C26_Step ==
    LET valid == IF IsHb THEN hb_itor_valid(itor) ELSE VALID(itor) IN
    ~valid =>
        /\ last'.op \in {"itor_key", "itor_data"} => last'.out = NULL
        /\ last'.op = "itor_set_data" => last'.ret = 0 /\ Untouched

C26_InvalidIteratorReadsNothing == [][C26_Step]_vars

\* set_data() was called with the cursor on the skip list's head, where
\* valid() is false; it returned true and the head now holds the datum.
C26_Witness ==
    /\ IsSkip /\ itor = HEAD /\ ~VALID(itor)
    /\ last.op = "itor_set_data" /\ last.ret = 1
    /\ list.nd[HEAD].datum = last.v /\ last.v # NULL

====
